---- MODULE Spec2Model ----
(***************************************************************************)
(* A model of the Learnn response-text pipeline: the JSON extraction       *)
(* helper cleanJsonString, the quick-mode search searchVerifiedTopic, the  *)
(* deep-mode search advancedVerifiedSearch, the search form of App and the *)
(* persistence of NotesPanel.                                              *)
(*                                                                         *)
(* A text is a sequence of lexemes.  Every character the code inspects     *)
(* (brace, double quote, backslash, backquote, white space) is a lexeme   *)
(* of its own; a run of ordinary letters or digits ("json", "a", "91") is  *)
(* one lexeme.  Indexes are 0-based as in the source, and -1 is "not       *)
(* found".                                                                 *)
(***************************************************************************)
EXTENDS Integers, Sequences, FiniteSets, TLC

VARIABLES
  lead, body, trail,   \* the three parts the argument of cleanJsonString is made of
  input,               \* the argument of cleanJsonString
  text,                \* the local the code reassigns to the fenced interior
  start, i, balance, end, insideString, escape,   \* locals of cleanJsonString
  ret,                 \* the value cleanJsonString returned
  pc,                  \* position in cleanJsonString
  apiKey,              \* whether process.env.API_KEY is set
  requests,            \* calls of ai.models.generateContent so far
  responseText,        \* searchVerifiedTopic: the local text (response.text)
  parsedData,          \* searchVerifiedTopic: the local parsedData
  groundingChunks,     \* searchVerifiedTopic: the grounding chunks .map has visited
  result,              \* the VerifiedResult the promise resolved with
  error,               \* the message of the error the promise rejected with
  qpc,                 \* position in searchVerifiedTopic
  reliabilityScore,    \* advancedVerifiedSearch: the local reliabilityScore
  sources,             \* advancedVerifiedSearch: the array .map is building
  dpc,                 \* position in advancedVerifiedSearch
  query,               \* App: the state query
  deepMode,            \* App: the state deepMode
  loading,             \* App: the state loading
  appError,            \* App: the state error
  appResult,           \* App: the state result
  searchedQuery,       \* App: the state searchedQuery
  pending,             \* App: the calls of handleSearch that wait at their await
  notes,               \* NotesPanel: the state notes
  activeNoteId,        \* NotesPanel: the state activeNoteId
  searchQuery,         \* NotesPanel: the state searchQuery
  queued,              \* NotesPanel: the setNotes of an effect, not yet rendered
  stored,              \* localStorage: the item learnn_notes
  effects,             \* NotesPanel: the effects scheduled and not yet run
  loads,               \* how often the item was deserialized
  clock,               \* Date.now()
  npc,                 \* NotesPanel: whether it is mounted
  mode,                \* Timer: the state mode
  focusDuration,       \* Timer: the state focusDuration, in minutes
  breakDuration,       \* Timer: the state breakDuration, in minutes
  timeLeft,            \* Timer: the state timeLeft, in seconds
  isActive,            \* Timer: the state isActive
  isEditing,           \* Timer: the state isEditing
  interval,            \* Timer: whether the interval of the countdown effect is set
  timerEffects,        \* Timer: the effects scheduled and not yet run
  beep,                \* Timer: whether the last step called playBeep
  request,             \* Timer: the last call of adjustDuration, kept while its effects run
  adjusts              \* Timer: calls of adjustDuration so far

cleanVars == <<lead, body, trail, input, text, start, i, balance, end,
               insideString, escape, ret, pc>>

quickVars == <<apiKey, requests, responseText, parsedData, groundingChunks,
               result, error, qpc>>

deepVars == <<reliabilityScore, sources, dpc>>

appVars == <<query, deepMode, loading, appError, appResult, searchedQuery, pending>>

notesVars == <<notes, activeNoteId, searchQuery, queued, stored, effects, loads, clock, npc>>

timerVars == <<mode, focusDuration, breakDuration, timeLeft, isActive, isEditing,
               interval, timerEffects, beep, request, adjusts>>

vars == <<cleanVars, quickVars, deepVars, appVars, notesVars, timerVars>>

\* what the steps of one component leave alone
exceptClean == <<quickVars, deepVars, appVars, notesVars, timerVars>>
exceptQuick == <<cleanVars, deepVars, appVars, notesVars, timerVars>>
exceptSearch == <<cleanVars, appVars, notesVars, timerVars>>
exceptApp == <<cleanVars, quickVars, deepVars, notesVars, timerVars>>
exceptNotes == <<cleanVars, quickVars, deepVars, appVars, timerVars>>
exceptTimer == <<cleanVars, quickVars, deepVars, appVars, notesVars>>

----------------------------------------------------------------------------
(* Bounds *)

\* longest free text, in tokens
MaxLen == 4
\* longest prose before and after an embedded object, in tokens
MaxProse == 1
\* most grounding chunks of one response
MaxChunks == 5

----------------------------------------------------------------------------
(* Lexemes and JavaScript string primitives *)

LB == "{"
RB == "}"
DQ == "\""
BS == "\\"
\* the backquote character
BT == "bq"
SP == " "
NL == "\n"

NoString == <<"<none>">>

\* the class \s of the regular expressions, and the characters trim() removes
IsSpace(c) == c \in {SP, NL}

\* text[k]
At(s, k) == s[k + 1]

\* text.substring(from, to), 0 <= from <= to <= length
Substring(s, from, to) == SubSeq(s, from + 1, to)

\* whether pat occurs in s at index k
OccursAt(s, pat, k) ==
  /\ k >= 0
  /\ k + Len(pat) <= Len(s)
  /\ \A j \in 1..Len(pat) : s[k + j] = pat[j]

\* the element of a one-element set: Only({e(x) : x \in {v}}) is e(v)
Only(S) == CHOOSE x \in S : TRUE

SetMin(S) == Only({CHOOSE x \in T : \A y \in T : x <= y : T \in {S}})
SetMax(S) == Only({CHOOSE x \in T : \A y \in T : x >= y : T \in {S}})

\* the least and the greatest element of S, or d when S is empty
MinOr(S, d) == Only({IF T = {} THEN d ELSE SetMin(T) : T \in {S}})
MaxOr(S, d) == Only({IF T = {} THEN d ELSE SetMax(T) : T \in {S}})

\* text.indexOf(c)
IndexOf(s, c) == MinOr({k \in 0..(Len(s) - 1) : At(s, k) = c}, -1)

\* text.lastIndexOf(c)
LastIndexOf(s, c) == MaxOr({k \in 0..(Len(s) - 1) : At(s, k) = c}, -1)

\* text.trim()
Trim(s) ==
  LET solid == {k \in 0..(Len(s) - 1) : ~IsSpace(At(s, k))}
  IN  IF solid = {} THEN <<>> ELSE Substring(s, SetMin(solid), SetMax(solid) + 1)

\* the flag i of the json pattern: the case-folded lexeme
Lower(c) == IF c = "JSON" THEN "json" ELSE c

Fence == <<BT, BT, BT>>

----------------------------------------------------------------------------
(* The two regular expressions of cleanJsonString *)

\* \s* and the closing fence match at index k
ClosesAt(s, k) ==
  \E j \in k..Len(s) :
    /\ \A m \in k..(j - 1) : IsSpace(At(s, m))
    /\ OccursAt(s, Fence, j)

\* GroupEnd of a greedy group: the greatest end
GroupEndGreedy(s, from) == MaxOr({k \in from..Len(s) : ClosesAt(s, k)}, -1)

\* the lazy group ([\s\S]*?) that starts at from: the least end after which
\* \s* and the closing fence match, or -1
GroupEnd(s, from) == MinOr({k \in from..Len(s) : ClosesAt(s, k)}, -1)

\* the greedy \s* after the opener that ends at index e: the numbers of white
\* space characters it can take
SpaceRuns(s, e) ==
  {w \in 0..(Len(s) - e) : \A m \in e..(e + w - 1) : IsSpace(At(s, m))}

\* the match of  opener \s* ([\s\S]*?) \s* fence  whose opener ends at e: the
\* greedy \s* gives back white space only if the rest cannot match
GroupAt(s, e) ==
  Only({IF w = -1 THEN NoString ELSE Substring(s, e + w, GroupEnd(s, e + w)) :
        w \in {MaxOr({v \in SpaceRuns(s, e) : GroupEnd(s, e + v) # -1}, -1)}})

\* jsonBlockMatch: group 1 of the leftmost match of the pattern labeled json
JsonBlockMatch(s) ==
  LET opens(p) == /\ OccursAt(s, Fence, p)
                  /\ p + 3 < Len(s)
                  /\ Lower(At(s, p + 3)) = "json"
  IN  Only({IF m = -1 THEN NoString ELSE GroupAt(s, m + 4) :
            m \in {MinOr({p \in 0..(Len(s) - 1) :
                            opens(p) /\ GroupAt(s, p + 4) # NoString}, -1)}})

\* codeBlockMatch: group 1 of the leftmost match of the unlabeled pattern
CodeBlockMatch(s) ==
  Only({IF m = -1 THEN NoString ELSE GroupAt(s, m + 3) :
        m \in {MinOr({p \in 0..(Len(s) - 1) :
                        OccursAt(s, Fence, p) /\ GroupAt(s, p + 3) # NoString}, -1)}})

\* WorkingText without the pattern labeled json
WorkingTextUnlabeled(s) ==
  Only({IF c # NoString THEN c ELSE s : c \in {CodeBlockMatch(s)}})

\* step 1 of cleanJsonString: the working text
WorkingText(s) ==
  Only({IF j # NoString THEN j
        ELSE Only({IF c # NoString THEN c ELSE s : c \in {CodeBlockMatch(s)}}) :
        j \in {JsonBlockMatch(s)}})

----------------------------------------------------------------------------
(* The scan of cleanJsonString *)

\* ScanStep that counts the braces inside strings too
ScanStepCountsAll(st, char) ==
  IF st.escape THEN [st EXCEPT !.escape = FALSE]
  ELSE IF char = BS THEN [st EXCEPT !.escape = TRUE]
  ELSE IF char = DQ THEN [st EXCEPT !.insideString = ~st.insideString]
  ELSE IF char = LB THEN [st EXCEPT !.balance = st.balance + 1]
  ELSE IF char = RB THEN
    IF st.balance - 1 = 0
    THEN [st EXCEPT !.balance = st.balance - 1, !.end = st.i]
    ELSE [st EXCEPT !.balance = st.balance - 1]
  ELSE st

\* ScanStep without the escape flag: every quote toggles
ScanStepNoEscape(st, char) ==
  IF char = DQ THEN [st EXCEPT !.insideString = ~st.insideString]
  ELSE IF ~st.insideString /\ char = LB THEN [st EXCEPT !.balance = st.balance + 1]
  ELSE IF ~st.insideString /\ char = RB THEN
    IF st.balance - 1 = 0
    THEN [st EXCEPT !.balance = st.balance - 1, !.end = st.i]
    ELSE [st EXCEPT !.balance = st.balance - 1]
  ELSE st

\* one iteration of the for loop on character char, without the i++
ScanStep(st, char) ==
  IF st.escape THEN [st EXCEPT !.escape = FALSE]
  ELSE IF char = BS THEN [st EXCEPT !.escape = TRUE]
  ELSE IF char = DQ THEN [st EXCEPT !.insideString = ~st.insideString]
  ELSE IF ~st.insideString /\ char = LB THEN [st EXCEPT !.balance = st.balance + 1]
  ELSE IF ~st.insideString /\ char = RB THEN
    IF st.balance - 1 = 0
    THEN [st EXCEPT !.balance = st.balance - 1, !.end = st.i]
    ELSE [st EXCEPT !.balance = st.balance - 1]
  ELSE st

ScanInit(from) ==
  [i |-> from, balance |-> 0, end |-> -1, insideString |-> FALSE, escape |-> FALSE]

\* the iterations of the for loop for i from st.i up to hi - 1: the locals
\* after them, or at the break; the range is run half by half
RECURSIVE ScanRange(_, _, _)
ScanRange(s, st, hi) ==
  IF st.i >= hi \/ st.end # -1 THEN st
  ELSE IF hi = st.i + 1
  THEN Only({IF nx.end # -1 THEN nx ELSE [nx EXCEPT !.i = nx.i + 1] :
             nx \in {ScanStep(st, At(s, st.i))}})
  ELSE Only({ScanRange(s, half, hi) :
             half \in {ScanRange(s, st, (st.i + hi) \div 2)}})

\* the for loop from index st.i on: the locals when it is left
ScanLoop(s, st) == ScanRange(s, st, Len(s))

\* AfterScan whose substring leaves the closing brace out
AfterScanExclusive(s, from, e) ==
  IF e # -1 THEN Substring(s, from, e)
  ELSE IF LastIndexOf(s, RB) > from THEN Substring(s, from, LastIndexOf(s, RB) + 1)
  ELSE Trim(s)

\* AfterScan whose last resort is the text from the first brace on
AfterScanFragment(s, from, e) ==
  IF e # -1 THEN Substring(s, from, e + 1)
  ELSE IF LastIndexOf(s, RB) > from THEN Substring(s, from, LastIndexOf(s, RB) + 1)
  ELSE Substring(s, from, Len(s))

\* what follows the loop: the balanced object, the last-brace fallback, the trim
AfterScan(s, from, e) ==
  IF e # -1 THEN Substring(s, from, e + 1)
  ELSE IF LastIndexOf(s, RB) > from THEN Substring(s, from, LastIndexOf(s, RB) + 1)
  ELSE Trim(s)

\* cleanJsonString as a function of its argument
CleanJsonString(s) ==
  LET w == WorkingText(s)
      from == IndexOf(w, LB)
  IN  IF from = -1 THEN Trim(w)
      ELSE AfterScan(w, from, ScanLoop(w, ScanInit(from)).end)

----------------------------------------------------------------------------
(* JSON.parse, on the lexemes of the model *)

CM == ","
CL == ":"
LK == "["
RK == "]"

\* the numbers that occur as lexemes, each with its value as a fraction
\* <<numerator, denominator>> in lowest terms; for each of them binary64 gives
\* the product with 100 that the fractions give
NumLex == {"0", "1", "91", "150", "0.83", "0.125", "0.996", "1.5", "-0.25"}
NumVal(c) ==
  CASE c = "0" -> <<0, 1>>
    [] c = "1" -> <<1, 1>>
    [] c = "91" -> <<91, 1>>
    [] c = "150" -> <<150, 1>>
    [] c = "0.83" -> <<83, 100>>
    [] c = "0.125" -> <<1, 8>>
    [] c = "0.996" -> <<249, 250>>
    [] c = "1.5" -> <<3, 2>>
    [] c = "-0.25" -> <<-1, 4>>
LitLex == {"true", "false", "null"}

\* the characters that may follow a backslash inside a JSON string
EscLex == {DQ, BS, "/", "n"}
Unescape(c) == IF c = "n" THEN NL ELSE c

Failed == [ok |-> FALSE, next |-> 0, val |-> [t |-> "none", v |-> <<>>]]
Parsed(k, tag, v) == [ok |-> TRUE, next |-> k, val |-> [t |-> tag, v |-> v]]

\* the index of the first character at or after k that is not JSON white space
RECURSIVE SkipWs(_, _)
SkipWs(s, k) == IF k < Len(s) /\ IsSpace(At(s, k)) THEN SkipWs(s, k + 1) ELSE k

\* the rest of a string whose opening quote is passed; acc is what it holds so far
RECURSIVE ParseString(_, _, _)
ParseString(s, k, acc) ==
  IF k >= Len(s) THEN Failed
  ELSE IF At(s, k) = DQ THEN Parsed(k + 1, "str", acc)
  ELSE IF At(s, k) = BS THEN
    IF k + 1 < Len(s) /\ At(s, k + 1) \in EscLex
    THEN ParseString(s, k + 2, Append(acc, Unescape(At(s, k + 1))))
    ELSE Failed
  ELSE IF At(s, k) = NL THEN Failed
  ELSE ParseString(s, k + 1, Append(acc, At(s, k)))

RECURSIVE ParseValue(_, _)
RECURSIVE ParseMembers(_, _, _)
RECURSIVE ParseElements(_, _, _)

\* the key of a member that starts at k
KeyAt(s, k) ==
  IF k < Len(s) /\ At(s, k) = DQ THEN ParseString(s, k + 1, <<>>) ELSE Failed

\* the colon and the value after a key
ValueAfter(s, key, k) ==
  IF key.ok /\ k < Len(s) /\ At(s, k) = CL THEN ParseValue(s, k + 1) ELSE Failed

\* what follows a member: the closing brace or a comma and the next member
MembersRest(s, val, k, obj) ==
  IF ~val.ok \/ k >= Len(s) THEN Failed
  ELSE IF At(s, k) = RB THEN Parsed(k + 1, "obj", obj)
  ELSE IF At(s, k) = CM THEN ParseMembers(s, k + 1, obj)
  ELSE Failed

\* the members of an object after its opening brace or after a comma; a key
\* that occurs again takes the later value
ParseMembers(s, k, acc) ==
  Only({ Only({ MembersRest(s, val, SkipWs(s, val.next), (key.val.v :> val.val) @@ acc) :
                val \in {ValueAfter(s, key, SkipWs(s, key.next))} }) :
         key \in {KeyAt(s, SkipWs(s, k))} })

\* what follows an element: the closing bracket or a comma and the next element
ElementsRest(s, val, k, arr) ==
  IF ~val.ok \/ k >= Len(s) THEN Failed
  ELSE IF At(s, k) = RK THEN Parsed(k + 1, "arr", arr)
  ELSE IF At(s, k) = CM THEN ParseElements(s, k + 1, arr)
  ELSE Failed

\* the elements of an array after its opening bracket or after a comma
ParseElements(s, k, acc) ==
  Only({ ElementsRest(s, val, SkipWs(s, val.next), Append(acc, val.val)) :
         val \in {ParseValue(s, k)} })

\* the value that starts at k, no white space before it
ValueAt(s, k, c, k2) ==
  IF k >= Len(s) THEN Failed
  ELSE IF c = DQ THEN ParseString(s, k + 1, <<>>)
  ELSE IF c \in NumLex THEN Parsed(k + 1, "num", NumVal(c))
  ELSE IF c \in LitLex THEN Parsed(k + 1, "lit", c)
  ELSE IF c = LB THEN
    IF k2 < Len(s) /\ At(s, k2) = RB THEN Parsed(k2 + 1, "obj", <<>>)
    ELSE ParseMembers(s, k + 1, <<>>)
  ELSE IF c = LK THEN
    IF k2 < Len(s) /\ At(s, k2) = RK THEN Parsed(k2 + 1, "arr", <<>>)
    ELSE ParseElements(s, k + 1, <<>>)
  ELSE Failed

\* one JSON value, white space before it skipped
ParseValue(s, k) ==
  Only({ ValueAt(s, k1, IF k1 < Len(s) THEN At(s, k1) ELSE "", SkipWs(s, k1 + 1)) :
         k1 \in {SkipWs(s, k)} })

\* JSON.parse(s): one value and nothing but white space after it
JsonParse(s) ==
  Only({ IF r.ok /\ SkipWs(s, r.next) = Len(s) THEN r ELSE Failed : r \in {ParseValue(s, 0)} })

\* s is the text of one JSON object, from its opening to its closing brace
IsJsonObject(s) ==
  /\ Len(s) > 1
  /\ At(s, 0) = LB
  /\ At(s, Len(s) - 1) = RB
  /\ JsonParse(s).ok
  /\ JsonParse(s).val.t = "obj"

----------------------------------------------------------------------------
(* The texts cleanJsonString is given *)

\* a token of a generated text: a lexeme, or a fence with or without its label
Expand(tok) ==
  CASE tok = "fence" -> Fence
    [] tok = "fence-json" -> Fence \o <<"json">>
    [] OTHER -> <<tok>>

RECURSIVE Flatten(_)
Flatten(toks) == IF toks = <<>> THEN <<>> ELSE Expand(Head(toks)) \o Flatten(Tail(toks))

TokSeqs(S, n) == UNION {[1..k -> S] : k \in 0..n}

FreeTok == {LB, RB, DQ, BS, BT, SP, "a", "fence", "fence-json"}
ProseTok == {LB, RB, DQ, BS, BT, SP, NL, "a", "fence", "fence-json"}

\* JSON objects a response may carry
Objects ==
  { <<LB, RB>>,
    <<LB, DQ, "a", DQ, CL, "1", RB>>,
    <<LB, DQ, "a", DQ, CL, DQ, RB, DQ, RB>>,
    <<LB, DQ, "a", DQ, CL, DQ, LB, DQ, RB>>,
    <<LB, DQ, "a", DQ, CL, DQ, BS, DQ, RB, DQ, RB>>,
    <<LB, DQ, "a", DQ, CL, DQ, BS, BS, DQ, RB>>,
    <<LB, DQ, "a", DQ, CL, LB, DQ, "a", DQ, CL, LK, "1", RK, RB, RB>>,
    <<LB, DQ, "a", DQ, CL, DQ, BT, BT, BT, "a", BT, BT, BT, DQ, RB>> }

\* the text wrapped in a fence labeled json
FenceJson(c) == Fence \o <<"json", NL>> \o c \o <<NL>> \o Fence

----------------------------------------------------------------------------
(* cleanJsonString, statement by statement *)

\* the value undefined, and the promise that has not resolved
Undefined == [t |-> "undef", v |-> <<>>]
NoResult == [mode |-> "none"]

\* searchVerifiedTopic is not running
QuickIdle ==
  /\ apiKey = TRUE
  /\ requests = 0
  /\ responseText = <<>>
  /\ parsedData = Undefined
  /\ groundingChunks = <<>>
  /\ result = NoResult
  /\ error = ""
  /\ qpc = "entry"

\* advancedVerifiedSearch is not called
DeepIdle ==
  /\ reliabilityScore = Undefined
  /\ sources = <<>>
  /\ dpc = "idle"

\* the item of localStorage: absent, or the text JSON.stringify made of a list
NoItem == [present |-> FALSE, text |-> <<>>]

\* no setNotes of an effect waits for its render
NoUpdate == [present |-> FALSE, list |-> <<>>]

\* App is not rendered
AppIdle ==
  /\ query = <<>>
  /\ deepMode = FALSE
  /\ loading = FALSE
  /\ appError = ""
  /\ appResult = NoResult
  /\ searchedQuery = <<>>
  /\ pending = <<>>

\* NotesPanel is not rendered
NotesIdle ==
  /\ notes = <<>>
  /\ activeNoteId = ""
  /\ searchQuery = ""
  /\ queued = NoUpdate
  /\ stored = NoItem
  /\ effects = {}
  /\ loads = 0
  /\ clock = 0
  /\ npc = "idle"

\* the Timer: its limits and the values of useState
FocusMin == 1
FocusMax == 120
BreakMin == 1
BreakMax == 60
SecondsPerMinute == 60
InitialFocus == 25
InitialBreak == 5
NoRequest == <<>>

\* the Timer as it is constructed
TimerIdle ==
  /\ mode = "FOCUS"
  /\ focusDuration = InitialFocus
  /\ breakDuration = InitialBreak
  /\ timeLeft = InitialFocus * SecondsPerMinute
  /\ isActive = FALSE
  /\ isEditing = FALSE
  /\ interval = FALSE
  /\ timerEffects = {}
  /\ beep = FALSE
  /\ request = NoRequest
  /\ adjusts = 0

Locals == [i |-> i, balance |-> balance, end |-> end,
           insideString |-> insideString, escape |-> escape]

SetLocals(st) ==
  /\ i' = st.i
  /\ balance' = st.balance
  /\ end' = st.end
  /\ insideString' = st.insideString
  /\ escape' = st.escape

InitClean ==
  /\ \/ /\ lead \in {Flatten(t) : t \in TokSeqs(ProseTok, MaxProse)}
        /\ trail \in {Flatten(t) : t \in TokSeqs(ProseTok, MaxProse)}
        /\ body \in Objects
     \/ /\ lead = <<>>
        /\ trail = <<>>
        /\ body \in {Flatten(t) : t \in TokSeqs(FreeTok, MaxLen)}
  /\ input = lead \o body \o trail
  /\ text = input
  /\ start = -1
  /\ i = 0 /\ balance = 0 /\ end = -1 /\ insideString = FALSE /\ escape = FALSE
  /\ ret = NoString
  /\ pc = "match"
  /\ QuickIdle
  /\ DeepIdle
  /\ AppIdle
  /\ NotesIdle
  /\ TimerIdle

\* step 1: the fenced interior becomes the text
StripFence ==
  /\ pc = "match"
  /\ text' = WorkingText(text)
  /\ pc' = "find"
  /\ UNCHANGED <<lead, body, trail, input, start, i, balance, end, insideString, escape, ret>>
  /\ UNCHANGED exceptClean

\* step 2: the first opening brace, or the trimmed text when there is none
FindStart ==
  /\ pc = "find"
  /\ start' = IndexOf(text, LB)
  /\ IF start' = -1
     THEN /\ ret' = Trim(text)
          /\ pc' = "done"
          /\ UNCHANGED <<i, balance, end, insideString, escape>>
     ELSE /\ SetLocals(ScanInit(start'))
          /\ pc' = "loop"
          /\ UNCHANGED ret
  /\ UNCHANGED <<lead, body, trail, input, text>>
  /\ UNCHANGED exceptClean

\* LoopStep whose continue after a backslash skips the i++
LoopStepNoAdvance ==
  /\ pc = "loop"
  /\ i < Len(text)
  /\ LET nx == ScanStep(Locals, At(text, i))
     IN  IF nx.end # -1
         THEN SetLocals(nx) /\ pc' = "after"
         ELSE SetLocals([nx EXCEPT !.i = IF nx.escape # escape THEN i ELSE i + 1])
              /\ pc' = "loop"
  /\ UNCHANGED <<lead, body, trail, input, text, start, ret>>
  /\ UNCHANGED exceptClean

\* step 3: one iteration of the for loop, with its break or its i++
LoopStep ==
  /\ pc = "loop"
  /\ i < Len(text)
  /\ LET nx == ScanStep(Locals, At(text, i))
     IN  IF nx.end # -1
         THEN SetLocals(nx) /\ pc' = "after"
         ELSE SetLocals([nx EXCEPT !.i = i + 1]) /\ pc' = "loop"
  /\ UNCHANGED <<lead, body, trail, input, text, start, ret>>
  /\ UNCHANGED exceptClean

\* the loop condition fails
LoopExit ==
  /\ pc = "loop"
  /\ i >= Len(text)
  /\ pc' = "after"
  /\ UNCHANGED <<lead, body, trail, input, text, start, i, balance, end, insideString, escape, ret>>
  /\ UNCHANGED exceptClean

\* the returns after the loop
Return ==
  /\ pc = "after"
  /\ ret' = AfterScan(text, start, end)
  /\ pc' = "done"
  /\ UNCHANGED <<lead, body, trail, input, text, start, i, balance, end, insideString, escape>>
  /\ UNCHANGED exceptClean

NextClean == StripFence \/ FindStart \/ LoopStep \/ LoopExit \/ Return

SpecClean == InitClean /\ [][NextClean]_vars

\* the scheduling of a synchronous function: it runs to its return
FairClean == SpecClean /\ WF_vars(NextClean)

----------------------------------------------------------------------------
(* cleanJsonString on texts made of fenced blocks *)

\* most segments (prose or fenced block) of a text
MaxSegments == 2

\* a segment of a response: prose, or a fenced block with its label
Prose(c) == [kind |-> "prose", label |-> <<>>, content |-> c]
Block(label, c) == [kind |-> "block", label |-> label, content |-> c]

\* what the segments hold: no fence and no white space at either end
SegmentContents ==
  { <<"a">>,
    <<LB, "a">>,
    <<LB, DQ, "a", DQ, CL, "1", RB>>,
    <<"a", SP, LB, DQ, "a", DQ, CL, DQ, RB, DQ, RB, SP, "a">> }

Segments ==
  {Prose(c) : c \in SegmentContents}
  \cup {Block(l, c) : l \in {<<>>, <<"json">>, <<"JSON">>}, c \in SegmentContents}

SegmentLists == UNION {[1..k -> Segments] : k \in 1..MaxSegments}

\* the text of a segment: a block has each fence on a line of its own
SegmentText(seg) ==
  IF seg.kind = "prose" THEN seg.content
  ELSE Fence \o seg.label \o <<NL>> \o seg.content \o <<NL>> \o Fence

\* the segments, one after the other, each on lines of its own
RECURSIVE SegmentsText(_)
SegmentsText(segs) ==
  IF Len(segs) = 1 THEN SegmentText(segs[1])
  ELSE SegmentText(Head(segs)) \o <<NL>> \o SegmentsText(Tail(segs))

InitFence ==
  /\ lead = <<>>
  /\ trail = <<>>
  /\ body \in {SegmentsText(segs) : segs \in SegmentLists}
  /\ input = body
  /\ text = input
  /\ start = -1
  /\ i = 0 /\ balance = 0 /\ end = -1 /\ insideString = FALSE /\ escape = FALSE
  /\ ret = NoString
  /\ pc = "match"
  /\ QuickIdle
  /\ DeepIdle
  /\ AppIdle
  /\ NotesIdle
  /\ TimerIdle

SpecFence == InitFence /\ [][NextClean]_vars

----------------------------------------------------------------------------
(* searchVerifiedTopic: values *)

MissingKeyMsg == "API Key is missing"
NoResponseMsg == "No response from AI"
MalformedMsg == "The AI response was not in a valid format. Please try again."
InvalidUrlMsg == "TypeError: Invalid URL"
NullAccessMsg == "TypeError: Cannot read properties of null"
TransportMsg == "provider error"

\* parsedData.name: undefined when the value is no object or has no such key
Field(val, name) ==
  IF val.t = "obj" /\ <<name>> \in DOMAIN val.v THEN val.v[<<name>>] ELSE Undefined

\* Falsy of the operator ??: undefined and null alone
FalsyNullish(val) == val.t = "undef" \/ (val.t = "lit" /\ val.v = "null")

\* what the operator || takes for false
Falsy(val) ==
  \/ val.t = "undef"
  \/ val.t = "lit" /\ val.v \in {"null", "false"}
  \/ val.t = "num" /\ val.v[1] = 0
  \/ val.t = "str" /\ val.v = <<>>

\* a URL: its scheme, the labels of its host name, then its path
Schemes == {"https://"}
Parseable(uri) == Len(uri) >= 2 /\ uri[1] \in Schemes /\ uri[2] # "/"

\* new URL(uri).hostname
RECURSIVE HostLabels(_)
HostLabels(rest) ==
  IF rest = <<>> \/ Head(rest) = "/" THEN <<>> ELSE <<Head(rest)>> \o HostLabels(Tail(rest))
Hostname(uri) == HostLabels(Tail(uri))

\* hostname.replace('www.', ''): the first occurrence is removed
RECURSIVE ReplaceWww(_)
ReplaceWww(host) ==
  IF host = <<>> THEN <<>>
  ELSE IF Head(host) = "www." THEN Tail(host)
  ELSE <<Head(host)>> \o ReplaceWww(Tail(host))

\* a grounding chunk; an absent title or uri is the empty one
WebChunk(title, uri) == [web |-> TRUE, title |-> title, uri |-> uri]
OtherChunk == [web |-> FALSE, title |-> "", uri |-> <<>>]

UrlA == <<"https://", "www.", "a.com", "/">>
UrlA2 == <<"https://", "a.com", "/">>
UrlDocs == <<"https://", "docs.", "www.", "a.com", "/">>
UrlB == <<"https://", "b.org", "/", "x">>
UrlB2 == <<"https://", "www.", "b.org">>

ChunkPool ==
  { OtherChunk,
    WebChunk("A", UrlA),
    WebChunk("B", UrlA),
    WebChunk("", UrlA2),
    WebChunk("C", UrlDocs),
    WebChunk("D", UrlB),
    WebChunk("E", UrlB2),
    WebChunk("F", <<>>),
    WebChunk("G", <<"a.com">>) }

\* the texts the provider answers with; the empty one is the absent text
PayloadFull ==
  <<LB, DQ, "summary", DQ, CL, DQ, "S", DQ, CM,
    DQ, "detailedExplanation", DQ, CL, DQ, "E", DQ, CM,
    DQ, "reliabilityScore", DQ, CL, "91", CM,
    DQ, "consensusNote", DQ, CL, DQ, "agree", DQ, CM,
    DQ, "recommendedVideos", DQ, CL, LK,
    LB, DQ, "title", DQ, CL, DQ, "V", DQ, CM, DQ, "query", DQ, CL, DQ, "q", DQ, RB,
    RK, RB>>
PayloadPartial ==
  <<LB, DQ, "summary", DQ, CL, DQ, "S", DQ, CM,
    DQ, "reliabilityScore", DQ, CL, "150", RB>>

ResponseTexts ==
  { <<>>,
    <<"Here", SP, "is", CL, NL>> \o FenceJson(PayloadFull) \o <<NL, "Thanks">>,
    PayloadPartial,
    <<"Sure", SP, LB, "not", SP, "valid", SP, "json">>,
    <<LB, DQ, "a", DQ, CL, DQ, BT, BT, BT, "a", BT, BT, BT, DQ, RB>>,
    <<"Sure", SP, LB, DQ, "a", DQ, CL, "1", RB, SP, LB, RB>>,
    <<LB, LB, RB>>,
    <<"null">>,
    <<LB, DQ, "recommendedVideos", DQ, CL, "1", RB>>,
    <<LB, DQ, "recommendedVideos", DQ, CL, "0", RB>> }

----------------------------------------------------------------------------
(* searchVerifiedTopic: the mapping of the grounding chunks *)

Null == [web |-> FALSE, title |-> "", url |-> <<>>, source |-> <<>>]

\* the callback of .map
MapChunk(chunk) ==
  IF chunk.web
  THEN [web |-> TRUE,
        title |-> IF chunk.title = "" THEN "Source Link" ELSE chunk.title,
        url |-> chunk.uri,
        source |-> ReplaceWww(Hostname(chunk.uri))]
  ELSE Null

\* a.findIndex(t => t.url === url), 1-based
FindIndex(a, url) == SetMin({k \in 1..Len(a) : a[k].url = url})

\* the elements of a at the indexes of keep, in order
RECURSIVE Pick(_, _, _)
Pick(a, keep, k) ==
  IF k > Len(a) THEN <<>>
  ELSE (IF k \in keep THEN <<a[k]>> ELSE <<>>) \o Pick(a, keep, k + 1)

\* Dedupe that keeps the last element of each url
DedupeKeepLast(a) ==
  Pick(a, {k \in 1..Len(a) : \A j \in (k + 1)..Len(a) : a[j].url # a[k].url}, 1)

\* Dedupe that removes nothing
DedupeNone(a) == a

\* .filter((v, i, a) => a.findIndex(t => t.url === v.url) === i)
Dedupe(a) == Pick(a, {k \in 1..Len(a) : FindIndex(a, a[k].url) = k}, 1)

\* .slice(0, n)
Slice(a, n) == SubSeq(a, 1, IF Len(a) < n THEN Len(a) ELSE n)

\* webSources, when no callback throws
WebSources(chunks) ==
  LET mapped == [k \in 1..Len(chunks) |-> MapChunk(chunks[k])]
      items == Pick(mapped, {k \in 1..Len(mapped) : mapped[k] # Null}, 1)
  IN  Slice(Dedupe(items), 4)

----------------------------------------------------------------------------
(* searchVerifiedTopic *)

\* ParseResponse whose catch falls back to an empty object
ParseResponseDefaults(txt) ==
  LET parsed == JsonParse(CleanJsonString(txt))
  IN  IF txt = <<>> THEN [thrown |-> TRUE, error |-> NoResponseMsg, data |-> Undefined]
      ELSE IF ~parsed.ok THEN [thrown |-> FALSE, error |-> "", data |-> [t |-> "obj", v |-> <<>>]]
      ELSE [thrown |-> FALSE, error |-> "", data |-> parsed.val]

\* the try around JSON.parse(cleanJsonString(text)), after the test of text
ParseResponse(txt) ==
  LET parsed == JsonParse(CleanJsonString(txt))
  IN  IF txt = <<>> THEN [thrown |-> TRUE, error |-> NoResponseMsg, data |-> Undefined]
      ELSE IF ~parsed.ok THEN [thrown |-> TRUE, error |-> MalformedMsg, data |-> Undefined]
      ELSE [thrown |-> FALSE, error |-> "", data |-> parsed.val]

\* reading a property of parsedData throws
ReadThrows(data) == data.t = "lit" /\ data.v = "null"

\* BuildResult that leaves the reliabilityScore out
BuildResultNoScore(data, chunks) ==
  [summary |-> Field(data, "summary"),
   detailedExplanation |-> Field(data, "detailedExplanation"),
   reliabilityScore |-> Undefined,
   consensusNote |-> Field(data, "consensusNote"),
   recommendedVideos |->
     IF Falsy(Field(data, "recommendedVideos"))
     THEN [t |-> "arr", v |-> <<>>]
     ELSE Field(data, "recommendedVideos"),
   sources |-> WebSources(chunks),
   mode |-> "quick"]

\* the object searchVerifiedTopic returns
BuildResult(data, chunks) ==
  [summary |-> Field(data, "summary"),
   detailedExplanation |-> Field(data, "detailedExplanation"),
   reliabilityScore |-> Field(data, "reliabilityScore"),
   consensusNote |-> Field(data, "consensusNote"),
   recommendedVideos |->
     IF Falsy(Field(data, "recommendedVideos"))
     THEN [t |-> "arr", v |-> <<>>]
     ELSE Field(data, "recommendedVideos"),
   sources |-> WebSources(chunks),
   mode |-> "quick"]

CleanIdle ==
  /\ lead = <<>> /\ body = <<>> /\ trail = <<>> /\ input = <<>> /\ text = <<>>
  /\ start = -1
  /\ i = 0 /\ balance = 0 /\ end = -1 /\ insideString = FALSE /\ escape = FALSE
  /\ ret = NoString
  /\ pc = "idle"

InitQuick ==
  /\ CleanIdle
  /\ DeepIdle
  /\ AppIdle
  /\ NotesIdle
  /\ TimerIdle
  /\ apiKey \in BOOLEAN
  /\ requests = 0
  /\ responseText = <<>>
  /\ parsedData = Undefined
  /\ groundingChunks = <<>>
  /\ result = NoResult
  /\ error = ""
  /\ qpc = "entry"

\* the credential check, with no key
MissingKey ==
  /\ qpc = "entry"
  /\ ~apiKey
  /\ error' = MissingKeyMsg
  /\ qpc' = "thrown"
  /\ UNCHANGED <<apiKey, requests, responseText, parsedData, groundingChunks, result>>
  /\ UNCHANGED exceptQuick

\* the credential check passes and generateContent is called
Request ==
  /\ qpc = "entry"
  /\ apiKey
  /\ requests' = requests + 1
  /\ qpc' = "await"
  /\ UNCHANGED <<apiKey, responseText, parsedData, groundingChunks, result, error>>
  /\ UNCHANGED exceptQuick

\* generateContent rejects; the catch logs and throws the error again
Reject ==
  /\ qpc = "await"
  /\ error' = TransportMsg
  /\ qpc' = "thrown"
  /\ UNCHANGED <<apiKey, requests, responseText, parsedData, groundingChunks, result>>
  /\ UNCHANGED exceptQuick

\* generateContent resolves; the text is tested and parsed
Resolve ==
  /\ qpc = "await"
  /\ \E txt \in ResponseTexts :
       LET out == ParseResponse(txt)
       IN  /\ responseText' = txt
           /\ parsedData' = out.data
           /\ error' = out.error
           /\ qpc' = IF out.thrown THEN "thrown" ELSE "map"
  /\ UNCHANGED <<apiKey, requests, groundingChunks, result>>
  /\ UNCHANGED exceptQuick

\* .map calls its callback on the next grounding chunk of the response; a web
\* chunk whose uri new URL rejects ends the function
Visit ==
  /\ qpc = "map"
  /\ Len(groundingChunks) < MaxChunks
  /\ \E chunk \in ChunkPool :
       /\ groundingChunks' = Append(groundingChunks, chunk)
       /\ IF chunk.web /\ ~Parseable(chunk.uri)
          THEN error' = InvalidUrlMsg /\ qpc' = "thrown"
          ELSE UNCHANGED <<error, qpc>>
  /\ UNCHANGED <<apiKey, requests, responseText, parsedData, result>>
  /\ UNCHANGED exceptQuick

\* the chunks are exhausted: the filters, the slice and the return
Finish ==
  /\ qpc = "map"
  /\ IF ReadThrows(parsedData)
     THEN error' = NullAccessMsg /\ qpc' = "thrown" /\ UNCHANGED result
     ELSE /\ result' = BuildResult(parsedData, groundingChunks)
          /\ qpc' = "returned"
          /\ UNCHANGED error
  /\ UNCHANGED <<apiKey, requests, responseText, parsedData, groundingChunks>>
  /\ UNCHANGED exceptQuick

NextQuick == MissingKey \/ Request \/ Reject \/ Resolve \/ Visit \/ Finish

SpecQuick == InitQuick /\ [][NextQuick]_vars

----------------------------------------------------------------------------
(* advancedVerifiedSearch: values *)

\* most webLinks of one payload
MaxLinks == 5

DeepMalformedMsg == "Failed to process advanced search results. Please try again."
UndefinedAccessMsg == "TypeError: Cannot read properties of undefined"
NotAFunctionMsg == "TypeError: is not a function"

\* the values a property cannot be read of
Nullish(val) == val.t = "undef" \/ (val.t = "lit" /\ val.v = "null")

NaN == [t |-> "nan", v |-> <<>>]
Num(n) == [t |-> "num", v |-> <<n, 1>>]

\* the number the operator * makes of its operand; objects and arrays do not
\* occur as operands in the texts of the model
ToNumber(val) ==
  CASE val.t = "num" -> val
    [] val.t = "lit" -> Num(IF val.v = "true" THEN 1 ELSE 0)
    [] val.t = "str" ->
         IF val.v = <<>> THEN Num(0)
         ELSE IF Len(val.v) = 1 /\ val.v[1] \in NumLex
              THEN [t |-> "num", v |-> NumVal(val.v[1])]
              ELSE NaN
    [] OTHER -> NaN

\* Round100 that cuts the fraction off instead of rounding
Round100Floor(val) ==
  Only({IF x.t = "nan" THEN NaN
        ELSE Num((100 * x.v[1]) \div x.v[2]) :
        x \in {ToNumber(val)}})

\* Math.round(x * 100): the integer floor(100 x + 1/2)
Round100(val) ==
  Only({IF x.t = "nan" THEN NaN
        ELSE Num((200 * x.v[1] + x.v[2]) \div (2 * x.v[2])) :
        x \in {ToNumber(val)}})

\* elements.join(sep)
RECURSIVE Join(_, _)
Join(elements, sep) ==
  IF elements = <<>> THEN <<>>
  ELSE IF Len(elements) = 1 THEN elements[1]
  ELSE elements[1] \o sep \o Join(Tail(elements), sep)

\* the text of a JSON string, member, array and object
StringText(chars) == <<DQ>> \o chars \o <<DQ>>
MemberText(key, valueText) == <<DQ, key, DQ, CL>> \o valueText
ArrayText(elements) == <<LK>> \o Join(elements, <<CM>>) \o <<RK>>
ObjectText(members) == <<LB>> \o Join(members, <<CM>>) \o <<RB>>

\* a webLink of the payload; the empty url is the absent one
WebLink(title, url) == [title |-> title, url |-> url]
LinkText(link) ==
  ObjectText(<<MemberText("title", StringText(<<link.title>>))>>
             \o (IF link.url = <<>> THEN <<>>
                 ELSE <<MemberText("url", StringText(link.url))>>))

LinkPool ==
  { WebLink("A", UrlA), WebLink("B", UrlA), WebLink("C", UrlB),
    WebLink("G", <<"a.com">>) }

\* the conflicts lists and the scores the payloads carry
ConflictLists == {<<>>, <<"c1">>, <<"c1", "c2">>, <<"c2", "c1", "c1">>}
ScoreTexts == {<<c>> : c \in NumLex} \cup {StringText(<<"0.83">>), StringText(<<"high">>)}

AnalysisText(score, conflicts) ==
  ObjectText(<<MemberText("common", ArrayText(<<StringText(<<"f1">>)>>)),
               MemberText("conflicts",
                          ArrayText([k \in 1..Len(conflicts) |-> StringText(<<conflicts[k]>>)])),
               MemberText("consistencyScore", score)>>)

\* the text of a payload of the deep-mode structure
DeepText(score, conflicts, links) ==
  ObjectText(<<MemberText("analysis", AnalysisText(score, conflicts)),
               MemberText("verifiedAnswer", StringText(<<"V">>)),
               MemberText("webLinks", ArrayText([k \in 1..Len(links) |-> LinkText(links[k])])),
               MemberText("youtubeLinks",
                          ArrayText(<<ObjectText(<<MemberText("title", StringText(<<"T">>)),
                                                   MemberText("url", StringText(<<"y">>))>>)>>))>>)

LinkLists == UNION {[1..k -> LinkPool] : k \in 0..MaxLinks}

\* the texts the provider answers a deep search with: payloads that vary the
\* score, the conflicts and the webLinks, payloads that lack a part, and texts
\* that are no payload
DeepTexts ==
  {DeepText(sc, <<"c1">>, <<WebLink("A", UrlA)>>) : sc \in ScoreTexts}
  \cup {DeepText(<<"0.83">>, cf, <<WebLink("A", UrlA)>>) : cf \in ConflictLists}
  \cup {<<"Sure", CL, SP>> \o DeepText(<<"0.83">>, <<>>, ls) : ls \in LinkLists}
  \cup { <<>>,
         <<"Sure", SP, LB, "not", SP, "valid", SP, "json">>,
         <<"null">>,
         <<LB, RB>>,
         ObjectText(<<MemberText("analysis", ObjectText(<<>>))>>),
         ObjectText(<<MemberText("analysis", AnalysisText(<<"1">>, <<>>))>>),
         ObjectText(<<MemberText("analysis", AnalysisText(<<"1">>, <<>>)),
                      MemberText("webLinks", ArrayText(<<>>))>>),
         ObjectText(<<MemberText("analysis",
                        ObjectText(<<MemberText("common", ArrayText(<<>>)),
                                     MemberText("consistencyScore", <<"1">>)>>)),
                      MemberText("webLinks", ArrayText(<<>>)),
                      MemberText("youtubeLinks", ArrayText(<<>>))>>) }

----------------------------------------------------------------------------
(* advancedVerifiedSearch *)

SynthesizedMsg == "Synthesized from 4 distinct AI reasoning paths. "
ConflictsMsg == "Conflicts detected in: "
HighConsensusMsg == "High consensus across all reasoning models."

\* the try around JSON.parse(cleanText), after the test of text
DeepParseResponse(txt) ==
  LET parsed == JsonParse(CleanJsonString(txt))
  IN  IF txt = <<>> THEN [thrown |-> TRUE, error |-> NoResponseMsg, data |-> Undefined]
      ELSE IF ~parsed.ok THEN [thrown |-> TRUE, error |-> DeepMalformedMsg, data |-> Undefined]
      ELSE [thrown |-> FALSE, error |-> "", data |-> parsed.val]

\* the error of reading a property of val, when there is one
AccessMsg(val) == IF val.t = "undef" THEN UndefinedAccessMsg ELSE NullAccessMsg

\* the statements that compute reliabilityScore and summary throw
AdaptThrows(data) ==
  \/ Nullish(data)
  \/ Nullish(Field(data, "analysis"))
  \/ Field(Field(data, "analysis"), "common").t # "arr"

AdaptMsg(data) ==
  IF Nullish(data) THEN AccessMsg(data)
  ELSE IF Nullish(Field(data, "analysis")) THEN AccessMsg(Field(data, "analysis"))
  ELSE IF Nullish(Field(Field(data, "analysis"), "common"))
       THEN AccessMsg(Field(Field(data, "analysis"), "common"))
       ELSE NotAFunctionMsg

\* the callback of webLinks.map throws on link
LinkThrows(link) ==
  \/ Nullish(link)
  \/ Field(link, "url").t # "str"
  \/ ~Parseable(Field(link, "url").v)

\* the callback of webLinks.map
MapLink(link) ==
  [title |-> Field(link, "title"),
   url |-> Field(link, "url").v,
   source |-> IF Hostname(Field(link, "url").v) = <<>> THEN <<"web">>
              ELSE Hostname(Field(link, "url").v)]

\* the callback of youtubeLinks.map
MapVideo(link) ==
  [title |-> Field(link, "title"), query |-> Field(link, "title"), url |-> Field(link, "url")]

\* youtubeLinks.map throws
VideosThrow(videos) ==
  \/ videos.t # "arr"
  \/ \E k \in 1..Len(videos.v) : Nullish(videos.v[k])

\* reading conflicts.length or calling conflicts.join throws
ConflictsThrow(conflicts) ==
  \/ Nullish(conflicts)
  \/ conflicts.t = "str" /\ conflicts.v # <<>>

\* HasConflicts that needs more than one conflict
HasConflictsMany(conflicts) == conflicts.t \in {"arr", "str"} /\ Len(conflicts.v) > 1

\* conflicts.length > 0
HasConflicts(conflicts) == conflicts.t \in {"arr", "str"} /\ Len(conflicts.v) > 0

\* what join makes of an element; strings and nothing else occur as elements
\* in the texts of the model
ElementText(val) == IF val.t = "str" THEN val.v ELSE <<>>

\* common.slice(0, 2).join(', ') and conflicts.join(', ')
JoinValues(elements) ==
  Join([k \in 1..Len(elements) |-> ElementText(elements[k])], <<", ">>)

\* the template literal of consensusNote
ConsensusNote(conflicts) ==
  <<SynthesizedMsg>>
  \o (IF HasConflicts(conflicts)
      THEN <<ConflictsMsg>> \o JoinValues(conflicts.v)
      ELSE <<HighConsensusMsg>>)

\* DeepResult with the sources deduplicated by url and cut to 4, as
\* searchVerifiedTopic does
DeepResultDeduped(data, score, mapped) ==
  [summary |-> [score |-> score,
                common |-> JoinValues(Slice(Field(Field(data, "analysis"), "common").v, 2))],
   detailedExplanation |-> Field(data, "verifiedAnswer"),
   reliabilityScore |-> score,
   consensusNote |-> ConsensusNote(Field(Field(data, "analysis"), "conflicts")),
   sources |-> Slice(Dedupe(mapped), 4),
   recommendedVideos |->
     [t |-> "arr",
      v |-> [k \in 1..Len(Field(data, "youtubeLinks").v) |->
               MapVideo(Field(data, "youtubeLinks").v[k])]],
   mode |-> "deep"]

\* the object advancedVerifiedSearch returns; summary is the template literal
\* with its two holes
DeepResult(data, score, mapped) ==
  [summary |-> [score |-> score,
                common |-> JoinValues(Slice(Field(Field(data, "analysis"), "common").v, 2))],
   detailedExplanation |-> Field(data, "verifiedAnswer"),
   reliabilityScore |-> score,
   consensusNote |-> ConsensusNote(Field(Field(data, "analysis"), "conflicts")),
   sources |-> mapped,
   recommendedVideos |->
     [t |-> "arr",
      v |-> [k \in 1..Len(Field(data, "youtubeLinks").v) |->
               MapVideo(Field(data, "youtubeLinks").v[k])]],
   mode |-> "deep"]

InitDeep ==
  /\ CleanIdle
  /\ AppIdle
  /\ NotesIdle
  /\ TimerIdle
  /\ apiKey \in BOOLEAN
  /\ requests = 0
  /\ responseText = <<>>
  /\ parsedData = Undefined
  /\ groundingChunks = <<>>
  /\ result = NoResult
  /\ error = ""
  /\ qpc = "idle"
  /\ reliabilityScore = Undefined
  /\ sources = <<>>
  /\ dpc = "entry"

\* the credential check, with no key
DeepMissingKey ==
  /\ dpc = "entry"
  /\ ~apiKey
  /\ error' = MissingKeyMsg
  /\ dpc' = "thrown"
  /\ UNCHANGED <<apiKey, requests, responseText, parsedData, groundingChunks, result, qpc>>
  /\ UNCHANGED <<reliabilityScore, sources>>
  /\ UNCHANGED exceptSearch

\* DeepRequest without the credential check
DeepRequestUnchecked ==
  /\ dpc = "entry"
  /\ requests' = requests + 1
  /\ dpc' = "await"
  /\ UNCHANGED <<apiKey, responseText, parsedData, groundingChunks, result, error, qpc>>
  /\ UNCHANGED <<reliabilityScore, sources>>
  /\ UNCHANGED exceptSearch

\* the credential check passes and generateContent is called
DeepRequest ==
  /\ dpc = "entry"
  /\ apiKey
  /\ requests' = requests + 1
  /\ dpc' = "await"
  /\ UNCHANGED <<apiKey, responseText, parsedData, groundingChunks, result, error, qpc>>
  /\ UNCHANGED <<reliabilityScore, sources>>
  /\ UNCHANGED exceptSearch

\* generateContent rejects; the catch logs and throws the error again
DeepReject ==
  /\ dpc = "await"
  /\ error' = TransportMsg
  /\ dpc' = "thrown"
  /\ UNCHANGED <<apiKey, requests, responseText, parsedData, groundingChunks, result, qpc>>
  /\ UNCHANGED <<reliabilityScore, sources>>
  /\ UNCHANGED exceptSearch

\* generateContent resolves; the text is tested, cleaned and parsed
DeepResolve ==
  /\ dpc = "await"
  /\ \E txt \in DeepTexts :
       LET out == DeepParseResponse(txt)
       IN  /\ responseText' = txt
           /\ parsedData' = out.data
           /\ error' = out.error
           /\ dpc' = IF out.thrown THEN "thrown" ELSE "adapt"
  /\ UNCHANGED <<apiKey, requests, groundingChunks, result, qpc>>
  /\ UNCHANGED <<reliabilityScore, sources>>
  /\ UNCHANGED exceptSearch

\* reliabilityScore and summary are computed
Adapt ==
  /\ dpc = "adapt"
  /\ IF AdaptThrows(parsedData)
     THEN /\ error' = AdaptMsg(parsedData)
          /\ dpc' = "thrown"
          /\ UNCHANGED reliabilityScore
     ELSE /\ reliabilityScore' = Round100(Field(Field(parsedData, "analysis"), "consistencyScore"))
          /\ dpc' = "links"
          /\ UNCHANGED error
  /\ UNCHANGED <<apiKey, requests, responseText, parsedData, groundingChunks, result, qpc>>
  /\ UNCHANGED sources
  /\ UNCHANGED exceptSearch

\* webLinks.map is called and calls its callback on the next webLink
MapLinks ==
  /\ dpc = "links"
  /\ LET webLinks == Field(parsedData, "webLinks")
     IN  IF webLinks.t # "arr"
         THEN /\ error' = IF Nullish(webLinks) THEN AccessMsg(webLinks) ELSE NotAFunctionMsg
              /\ dpc' = "thrown"
              /\ UNCHANGED sources
         ELSE /\ Len(sources) < Len(webLinks.v)
              /\ IF LinkThrows(webLinks.v[Len(sources) + 1])
                 THEN /\ error' = IF Nullish(webLinks.v[Len(sources) + 1])
                                  THEN AccessMsg(webLinks.v[Len(sources) + 1])
                                  ELSE InvalidUrlMsg
                      /\ dpc' = "thrown"
                      /\ UNCHANGED sources
                 ELSE /\ sources' = Append(sources, MapLink(webLinks.v[Len(sources) + 1]))
                      /\ UNCHANGED <<error, dpc>>
  /\ UNCHANGED <<apiKey, requests, responseText, parsedData, groundingChunks, result, qpc>>
  /\ UNCHANGED reliabilityScore
  /\ UNCHANGED exceptSearch

\* the webLinks are exhausted: youtubeLinks.map, the template of consensusNote
\* and the return
DeepFinish ==
  /\ dpc = "links"
  /\ Field(parsedData, "webLinks").t = "arr"
  /\ Len(sources) = Len(Field(parsedData, "webLinks").v)
  /\ IF VideosThrow(Field(parsedData, "youtubeLinks"))
     THEN /\ error' = IF Nullish(Field(parsedData, "youtubeLinks"))
                      THEN AccessMsg(Field(parsedData, "youtubeLinks"))
                      ELSE NotAFunctionMsg
          /\ dpc' = "thrown"
          /\ UNCHANGED result
     ELSE IF ConflictsThrow(Field(Field(parsedData, "analysis"), "conflicts"))
     THEN /\ error' = IF Nullish(Field(Field(parsedData, "analysis"), "conflicts"))
                      THEN AccessMsg(Field(Field(parsedData, "analysis"), "conflicts"))
                      ELSE NotAFunctionMsg
          /\ dpc' = "thrown"
          /\ UNCHANGED result
     ELSE /\ result' = DeepResult(parsedData, reliabilityScore, sources)
          /\ dpc' = "returned"
          /\ UNCHANGED error
  /\ UNCHANGED <<apiKey, requests, responseText, parsedData, groundingChunks, qpc>>
  /\ UNCHANGED <<reliabilityScore, sources>>
  /\ UNCHANGED exceptSearch

NextDeep ==
  DeepMissingKey \/ DeepRequest \/ DeepReject \/ DeepResolve \/ Adapt \/ MapLinks \/ DeepFinish

SpecDeep == InitDeep /\ [][NextDeep]_vars

\* a call of either search function
SpecSearch == (InitQuick \/ InitDeep) /\ [][NextQuick \/ NextDeep]_vars

----------------------------------------------------------------------------
(* App: the search form and handleSearch *)

\* most calls of the search functions that are awaited at once
MaxPending == 2

\* neither search function is running
SearchIdle ==
  /\ apiKey = TRUE
  /\ requests = 0
  /\ responseText = <<>>
  /\ parsedData = Undefined
  /\ groundingChunks = <<>>
  /\ result = NoResult
  /\ error = ""
  /\ qpc = "idle"
  /\ DeepIdle

\* what the user types into the input
Queries == {<<>>, <<SP>>, <<"tla">>, <<"sat", SP>>}

\* the errors with a status code that the provider's client throws
RateLimitMsg == "got status: 429 Too Many Requests"
BadRequestMsg == "got status: 400 Bad Request"
ServerErrorMsg == "got status: 500 Internal Server Error"
UnavailableMsg == "got status: 503 Service Unavailable"
JsonSyntaxMsg == "Unexpected token in JSON at position 0"

\* the errors a call of a search function rejects with
SearchErrors ==
  {MissingKeyMsg, NoResponseMsg, MalformedMsg, DeepMalformedMsg, InvalidUrlMsg, TransportMsg,
   RateLimitMsg, BadRequestMsg, ServerErrorMsg, UnavailableMsg, JsonSyntaxMsg}

\* msg.includes(mark), for the marks getReadableError looks for
Includes(msg, mark) ==
  \/ mark = "429" /\ msg = RateLimitMsg
  \/ mark = "400" /\ msg = BadRequestMsg
  \/ mark = "500" /\ msg = ServerErrorMsg
  \/ mark = "503" /\ msg = UnavailableMsg
  \/ mark = "API Key" /\ msg = MissingKeyMsg
  \/ mark = "JSON" /\ msg = JsonSyntaxMsg

TrafficText == "Traffic is high! We've reached our API limit. Please wait a moment and try again."
InvalidQueryText == "The search query was invalid. Please try a different topic."
HiccupText == "Our AI servers are having a hiccup. Please try again shortly."
ConfigurationText == "Configuration Error: API Key is missing or invalid."
NotVerifiedText == "We couldn't verify the results properly. Please try searching again."
UnexpectedText == "An unexpected error occurred. Please try again."

GetReadableError(msg) ==
  IF Includes(msg, "429") THEN TrafficText
  ELSE IF Includes(msg, "400") THEN InvalidQueryText
  ELSE IF Includes(msg, "500") \/ Includes(msg, "503") THEN HiccupText
  ELSE IF Includes(msg, "API Key") THEN ConfigurationText
  ELSE IF Includes(msg, "JSON") THEN NotVerifiedText
  ELSE UnexpectedText

\* the call of a search function that handleSearch awaits
SearchCall(deep, topic) == [deep |-> deep, topic |-> topic]

\* the VerifiedResult a call resolves with, as far as App tells results apart
SearchResult(call) == [mode |-> IF call.deep THEN "deep" ELSE "quick", topic |-> call.topic]

\* list without its k-th element
Without(list, k) == SubSeq(list, 1, k - 1) \o SubSeq(list, k + 1, Len(list))

InitApp ==
  /\ CleanIdle
  /\ SearchIdle
  /\ NotesIdle
  /\ TimerIdle
  /\ query = <<>>
  /\ deepMode = FALSE
  /\ loading = FALSE
  /\ appError = ""
  /\ appResult = NoResult
  /\ searchedQuery = <<>>
  /\ pending = <<>>

\* onChange of the input
SetQuery ==
  /\ \E value \in Queries : query' = value
  /\ UNCHANGED <<deepMode, loading, appError, appResult, searchedQuery, pending>>
  /\ UNCHANGED exceptApp

\* onClick of the deep search toggle
ToggleDeep ==
  /\ deepMode' = ~deepMode
  /\ UNCHANGED <<query, loading, appError, appResult, searchedQuery, pending>>
  /\ UNCHANGED exceptApp

\* a submit button that is never disabled
SubmitAlwaysEnabled == TRUE

\* the form can be submitted: its only submit button is not disabled
SubmitEnabled == ~loading

\* handleSearch that leaves the error of the search before in place
HandleSearchKeepsError ==
  /\ SubmitEnabled
  /\ Len(pending) < MaxPending
  /\ IF Trim(query) = <<>>
     THEN UNCHANGED <<loading, appResult, searchedQuery, pending>>
     ELSE /\ loading' = TRUE
          /\ appResult' = NoResult
          /\ searchedQuery' = query
          /\ pending' = Append(pending, SearchCall(deepMode, query))
  /\ UNCHANGED <<query, deepMode, appError>>
  /\ UNCHANGED exceptApp

\* onSubmit of the form: handleSearch up to its await
HandleSearch ==
  /\ SubmitEnabled
  /\ Len(pending) < MaxPending
  /\ IF Trim(query) = <<>>
     THEN UNCHANGED <<loading, appError, appResult, searchedQuery, pending>>
     ELSE /\ loading' = TRUE
          /\ appError' = ""
          /\ appResult' = NoResult
          /\ searchedQuery' = query
          /\ pending' = Append(pending, SearchCall(deepMode, query))
  /\ UNCHANGED <<query, deepMode>>
  /\ UNCHANGED exceptApp

\* an awaited call resolves: the rest of the try block and the finally block
SearchResolves ==
  /\ \E k \in 1..Len(pending) :
       /\ appResult' = SearchResult(pending[k])
       /\ pending' = Without(pending, k)
  /\ query' = <<>>
  /\ loading' = FALSE
  /\ UNCHANGED <<deepMode, appError, searchedQuery>>
  /\ UNCHANGED exceptApp

\* a rejection whose finally block does not run
SearchRejectsNoFinally ==
  /\ \E k \in 1..Len(pending) : pending' = Without(pending, k)
  /\ \E err \in SearchErrors : appError' = GetReadableError(err)
  /\ UNCHANGED <<query, deepMode, loading, appResult, searchedQuery>>
  /\ UNCHANGED exceptApp

\* an awaited call rejects: the catch block and the finally block
SearchRejects ==
  /\ \E k \in 1..Len(pending) : pending' = Without(pending, k)
  /\ \E err \in SearchErrors : appError' = GetReadableError(err)
  /\ loading' = FALSE
  /\ UNCHANGED <<query, deepMode, appResult, searchedQuery>>
  /\ UNCHANGED exceptApp

NextApp == SetQuery \/ ToggleDeep \/ HandleSearch \/ SearchResolves \/ SearchRejects

SpecApp == InitApp /\ [][NextApp]_vars

\* the awaited call settles: the promise of the search function is resolved or
\* rejected, and the continuation of handleSearch is run
FairApp == SpecApp /\ WF_vars(SearchResolves \/ SearchRejects)

----------------------------------------------------------------------------
(* NotesPanel: the notes and their item in localStorage *)

\* most notes of the list, latest value of Date.now(), most deserializations
MaxNotes == 2
MaxClock == 1
MaxLoads == 2

\* activeNoteId is null
NullId == ""

\* a note has no font property
NoFont == "absent"

Fonts == {"sans", "serif", "mono"}
DefaultTopic == "New Study Session"
Topics == {DefaultTopic, "tla"}
Contents == {"", "x"}

\* Date.now().toString()
DateString(t) == ToString(t)

Note(id, topic, content, timestamp, font) ==
  [id |-> id, topic |-> topic, content |-> content, timestamp |-> timestamp, font |-> font]

\* JSON.stringify(list): the text of the list, each note with its properties
\* in order, the font left out when the note has none
StringifyNote(note) ==
  IF note.font = NoFont
  THEN <<note.id, note.topic, note.content, note.timestamp>>
  ELSE <<note.id, note.topic, note.content, note.timestamp, note.font>>
Stringify(list) == [k \in 1..Len(list) |-> StringifyNote(list[k])]

\* JSON.parse(text)
ParseNote(props) ==
  Note(props[1], props[2], props[3], props[4], IF Len(props) = 5 THEN props[5] ELSE NoFont)
Parse(txt) == [k \in 1..Len(txt) |-> ParseNote(txt[k])]

Item(txt) == [present |-> TRUE, text |-> txt]

\* the item when the panel is first mounted: none, the empty list, or a note
\* that was stored without a font
StoredAtStart ==
  {NoItem, Item(Stringify(<<>>)), Item(Stringify(<<Note("0", "tla", "x", 0, NoFont)>>))}

\* str.toLowerCase().includes(q.toLowerCase()), for the topics, contents and
\* search words of the model: no topic holds the letter x
Contains(str, q) == q = "" \/ str = q

\* notes.find(n => n.id === activeNoteId), as the index of the note; 0 for none
ActiveIndex == MinOr({k \in 1..Len(notes) : notes[k].id = activeNoteId}, 0)

\* the editor is rendered; otherwise the list is
EditorShown == activeNoteId # NullId /\ ActiveIndex # 0

\* the indexes of filteredNotes
Filtered ==
  {k \in 1..Len(notes) :
     Contains(notes[k].topic, searchQuery) \/ Contains(notes[k].content, searchQuery)}

\* the effects and the render they asked for are done: the panel takes events
Settled == npc = "mounted" /\ effects = {} /\ ~queued.present

\* { ...n, ...updates, timestamp: now }
Merge(n, updates, now) ==
  Note(n.id,
       IF updates.key = "topic" THEN updates.value ELSE n.topic,
       IF updates.key = "content" THEN updates.value ELSE n.content,
       now,
       IF updates.key = "font" THEN updates.value ELSE n.font)

\* the updates the editor passes to updateNote
Updates ==
  {[key |-> "font", value |-> f] : f \in Fonts}
  \cup {[key |-> "topic", value |-> t] : t \in Topics}
  \cup {[key |-> "content", value |-> c] : c \in Contents}

\* notes.filter(n => n.id !== id)
RECURSIVE FilterOut(_, _)
FilterOut(list, id) ==
  IF list = <<>> THEN <<>>
  ELSE (IF Head(list).id # id THEN <<Head(list)>> ELSE <<>>) \o FilterOut(Tail(list), id)

InitNotes ==
  /\ CleanIdle
  /\ SearchIdle
  /\ AppIdle
  /\ TimerIdle
  /\ notes = <<>>
  /\ activeNoteId = NullId
  /\ searchQuery = ""
  /\ queued = NoUpdate
  /\ stored \in StoredAtStart
  /\ effects = {}
  /\ loads = 0
  /\ clock = 0
  /\ npc = "unmounted"

\* App renders the LEARN view: the first render of the panel schedules both
\* effects
Mount ==
  /\ npc = "unmounted"
  /\ loads < MaxLoads
  /\ npc' = "mounted"
  /\ effects' = {"load", "save"}
  /\ UNCHANGED <<notes, activeNoteId, searchQuery, queued, stored, loads, clock>>
  /\ UNCHANGED exceptNotes

\* App leaves the LEARN view: the state of the panel is gone
Unmount ==
  /\ Settled
  /\ npc' = "unmounted"
  /\ notes' = <<>>
  /\ activeNoteId' = NullId
  /\ searchQuery' = ""
  /\ UNCHANGED <<queued, stored, effects, loads, clock>>
  /\ UNCHANGED exceptNotes

\* the effect with no dependencies: getItem, and JSON.parse and setNotes when
\* there is an item
LoadEffect ==
  /\ "load" \in effects
  /\ effects' = effects \ {"load"}
  /\ IF stored.present
     THEN /\ queued' = [present |-> TRUE, list |-> Parse(stored.text)]
          /\ loads' = loads + 1
     ELSE UNCHANGED <<queued, loads>>
  /\ UNCHANGED <<notes, activeNoteId, searchQuery, stored, clock, npc>>
  /\ UNCHANGED exceptNotes

\* the effect that depends on notes: setItem with the notes of the render that
\* scheduled it
SaveEffect ==
  /\ "save" \in effects
  /\ "load" \notin effects
  /\ effects' = effects \ {"save"}
  /\ stored' = Item(Stringify(notes))
  /\ UNCHANGED <<notes, activeNoteId, searchQuery, queued, loads, clock, npc>>
  /\ UNCHANGED exceptNotes

\* the render that the setNotes of the load effect asked for
RenderLoaded ==
  /\ effects = {}
  /\ queued.present
  /\ notes' = queued.list
  /\ queued' = NoUpdate
  /\ effects' = {"save"}
  /\ UNCHANGED <<activeNoteId, searchQuery, stored, loads, clock, npc>>
  /\ UNCHANGED exceptNotes

\* onChange of the search input of the list
SetSearchQuery ==
  /\ Settled
  /\ activeNoteId = NullId
  /\ \E q \in {"", "x"} : searchQuery' = q
  /\ UNCHANGED <<notes, activeNoteId, queued, stored, effects, loads, clock, npc>>
  /\ UNCHANGED exceptNotes

\* onClick of a note of the list
SelectNote ==
  /\ Settled
  /\ ~EditorShown
  /\ \E k \in Filtered : activeNoteId' = notes[k].id
  /\ UNCHANGED <<notes, searchQuery, queued, stored, effects, loads, clock, npc>>
  /\ UNCHANGED exceptNotes

\* onClick of Back to List
BackToList ==
  /\ Settled
  /\ EditorShown
  /\ activeNoteId' = NullId
  /\ UNCHANGED <<notes, searchQuery, queued, stored, effects, loads, clock, npc>>
  /\ UNCHANGED exceptNotes

\* createNote, from the button that is rendered while activeNoteId is null;
\* Date.now() is read for the id and again for the timestamp
CreateNote ==
  /\ Settled
  /\ activeNoteId = NullId
  /\ Len(notes) < MaxNotes
  /\ \E topic \in Topics, t1 \in clock..MaxClock :
       \E t2 \in t1..MaxClock :
         /\ notes' = <<Note(DateString(t1), topic, "", t2, "sans")>> \o notes
         /\ activeNoteId' = DateString(t1)
         /\ clock' = t2
  /\ searchQuery' = ""
  /\ effects' = {"save"}
  /\ UNCHANGED <<queued, stored, loads, npc>>
  /\ UNCHANGED exceptNotes

\* deleteNote that leaves activeNoteId as it is
DeleteIdKeepsActive(id) ==
  \E confirmed \in BOOLEAN :
    IF confirmed
    THEN /\ notes' = FilterOut(notes, id)
         /\ activeNoteId' = activeNoteId
         /\ effects' = {"save"}
    ELSE UNCHANGED <<notes, activeNoteId, effects>>

\* deleteNote of the id, after the answer to window.confirm
DeleteId(id) ==
  \E confirmed \in BOOLEAN :
    IF confirmed
    THEN /\ notes' = FilterOut(notes, id)
         /\ activeNoteId' = IF activeNoteId = id THEN NullId ELSE activeNoteId
         /\ effects' = {"save"}
    ELSE UNCHANGED <<notes, activeNoteId, effects>>

\* deleteNote, from the button of the editor or of a note of the list
DeleteNote ==
  /\ Settled
  /\ IF EditorShown
     THEN DeleteId(notes[ActiveIndex].id)
     ELSE \E k \in Filtered : DeleteId(notes[k].id)
  /\ UNCHANGED <<searchQuery, queued, stored, loads, clock, npc>>
  /\ UNCHANGED exceptNotes

\* UpdateNote that changes the notes in place: the array is the same and the
\* save effect is not scheduled
UpdateNoteInPlace ==
  /\ Settled
  /\ EditorShown
  /\ \E updates \in Updates, now \in clock..MaxClock :
       /\ notes' = [k \in 1..Len(notes) |->
                      IF notes[k].id = notes[ActiveIndex].id
                      THEN Merge(notes[k], updates, now)
                      ELSE notes[k]]
       /\ clock' = now
  /\ UNCHANGED <<activeNoteId, searchQuery, queued, stored, loads, npc, effects>>
  /\ UNCHANGED exceptNotes

\* updateNote, from the font buttons and the inputs of the editor
UpdateNote ==
  /\ Settled
  /\ EditorShown
  /\ \E updates \in Updates, now \in clock..MaxClock :
       /\ notes' = [k \in 1..Len(notes) |->
                      IF notes[k].id = notes[ActiveIndex].id
                      THEN Merge(notes[k], updates, now)
                      ELSE notes[k]]
       /\ clock' = now
  /\ effects' = {"save"}
  /\ UNCHANGED <<activeNoteId, searchQuery, queued, stored, loads, npc>>
  /\ UNCHANGED exceptNotes

NextNotes ==
  \/ Mount \/ Unmount \/ LoadEffect \/ SaveEffect \/ RenderLoaded
  \/ SetSearchQuery \/ SelectNote \/ BackToList
  \/ CreateNote \/ DeleteNote \/ UpdateNote

SpecNotes == InitNotes /\ [][NextNotes]_vars

----------------------------------------------------------------------------
(* What the claims speak of *)

\* s holds a fence
HasFence(s) == \E p \in 0..(Len(s) - 1) : OccursAt(s, Fence, p)

\* s holds two fences that do not overlap, so that a fence pattern matches
HasFencePair(s) ==
  \E p, q \in 0..(Len(s) - 1) :
    OccursAt(s, Fence, p) /\ OccursAt(s, Fence, q) /\ q >= p + 3

\* the number of backslashes right before index k of s
BackslashRun(s, k) ==
  SetMax({n \in 0..k : \A m \in 1..n : At(s, k - m) = BS})

\* the quote at index k of the JSON text s opens or closes a string
RealQuote(s, k) == At(s, k) = DQ /\ BackslashRun(s, k) % 2 = 0

\* the quote at index k of the JSON text s is escaped
EscapedQuote(s, k) == At(s, k) = DQ /\ BackslashRun(s, k) % 2 = 1

\* index k of the JSON text s lies inside a string value or key
InString(s, k) ==
  /\ ~RealQuote(s, k)
  /\ Cardinality({j \in 0..(k - 1) : RealQuote(s, j)}) % 2 = 1

\* the indexes of s where a brace stands inside a string
BracesInStrings(s) ==
  {k \in 0..(Len(s) - 1) : At(s, k) \in {LB, RB} /\ InString(s, k)}

\* the index in the object of the character the loop is about to read
ObjectIndex == i - start

\* a brace stands at index k of s, inside a string
BraceInString(s, k) == At(s, k) \in {LB, RB} /\ InString(s, k)

\* a brace stands at index k of s, after an escaped quote of the same string
BraceAfterEscapedQuote(s, k) ==
  /\ BraceInString(s, k)
  /\ \E j \in 0..(k - 1) : EscapedQuote(s, j) /\ \A m \in j..k : InString(s, m)

\* the indexes of s where a brace follows an escaped quote in the same string
BracesAfterEscapedQuote(s) ==
  {k \in 0..(Len(s) - 1) : BraceAfterEscapedQuote(s, k)}

\* the scan runs over the JSON object body, from its opening brace
ScansObject ==
  /\ start # -1
  /\ OccursAt(text, body, start)
  /\ IsJsonObject(body)

\* the loop is about to read a character of the object
ReadsObject ==
  /\ pc = "loop"
  /\ start # -1
  /\ ObjectIndex < Len(body)
  /\ OccursAt(text, body, start)
  /\ IsJsonObject(body)

\* the stepwise run returns what the operator CleanJsonString computes
StepwiseAgrees == pc = "done" => ret = CleanJsonString(input)

----------------------------------------------------------------------------
(* Claims about cleanJsonString, under SpecClean *)

\* C1 as stated: for a text made of one valid JSON object with arbitrary prose
\* before and after it, cleanJsonString returns exactly the object, whatever
\* the prose contains.
C1_AnyProse ==
  (pc = "done" /\ IsJsonObject(body)) => ret = body

\* C1 amended: when the prose before the object holds no opening brace and the
\* text holds no two fences (neither fence pattern matches), cleanJsonString
\* returns exactly the object, which parses.
C1_ProseWithoutBrace ==
  (/\ pc = "done"
   /\ IsJsonObject(body)
   /\ IndexOf(lead, LB) = -1
   /\ ~HasFencePair(input))
  => (ret = body /\ JsonParse(ret).ok /\ JsonParse(ret).val.t = "obj")

\* C1: an object of several characters was cut out of prose on both sides
C1_Witness ==
  /\ pc = "done"
  /\ IsJsonObject(body)
  /\ Len(body) > 2
  /\ lead # <<>>
  /\ trail # <<>>
  /\ IndexOf(lead, LB) = -1
  /\ ~HasFencePair(input)
  /\ ret = body

\* C2: while the scan runs over a JSON object, a brace inside one of its
\* strings leaves the balance as it is and does not end the loop, and the
\* substring returned for an object with such braces ends at the closing brace
\* of the object.
C2_BracesInStrings ==
  /\ [][(ReadsObject /\ BraceInString(body, ObjectIndex))
        => (balance' = balance /\ end' = -1 /\ pc' = "loop")]_vars
  /\ []((pc = "done" /\ ScansObject /\ BracesInStrings(body) # {}) => ret = body)

\* C2: an object with a brace inside a string was returned whole
C2_Witness ==
  /\ pc = "done"
  /\ ScansObject
  /\ BracesInStrings(body) # {}
  /\ trail # <<>>
  /\ ret = body

\* C3: while the scan runs over a JSON object, an escaped quote inside a string
\* leaves insideString true, so that a brace after it in the same string leaves
\* the balance as it is.
C3_EscapedQuote ==
  /\ [][(ReadsObject /\ EscapedQuote(body, ObjectIndex))
        => (insideString /\ insideString' /\ balance' = balance /\ pc' = "loop")]_vars
  /\ [][(ReadsObject /\ BraceAfterEscapedQuote(body, ObjectIndex))
        => (insideString /\ balance' = balance /\ end' = -1)]_vars

\* C3: the scan has passed an escaped quote and a brace after it, and the
\* object was returned whole
C3_Witness ==
  /\ pc = "done"
  /\ ScansObject
  /\ BracesAfterEscapedQuote(body) # {}
  /\ ret = body

\* C4 as stated: for every content, cleanJsonString of the content wrapped in
\* a fence labeled json equals cleanJsonString of the content.
C4_AnyContent ==
  pc = "done" => CleanJsonString(FenceJson(input)) = ret

\* C4 amended: for every content that holds no fence of its own, wrapped in a
\* fence labeled json (each fence on a line of its own), cleanJsonString
\* returns what it returns for the content alone.
C4_ContentWithoutFence ==
  (pc = "done" /\ ~HasFence(input)) => CleanJsonString(FenceJson(input)) = ret

\* C4: a content with a brace and prose around it, cut the same way with and
\* without the fence
C4_Witness ==
  /\ pc = "done"
  /\ ~HasFence(input)
  /\ start # -1
  /\ ret # input
  /\ ret # <<>>
  /\ CleanJsonString(FenceJson(input)) = ret

\* C5: cleanJsonString applied to what it returned returns the same string.
C5_Idempotent ==
  pc = "done" => CleanJsonString(ret) = ret

\* C5: the last-brace fallback returned a proper part of its argument
C5_Witness ==
  /\ pc = "done"
  /\ start # -1
  /\ end = -1
  /\ LastIndexOf(text, RB) > start
  /\ ret # input
  /\ CleanJsonString(ret) = ret

\* C6: for every text the run of cleanJsonString reaches its return, the loop
\* never reads past the text, no statement is stuck before the return, and
\* what is returned is a string.
C6_Total ==
  /\ <>(pc = "done")
  /\ [](pc = "loop" => (start <= i /\ i <= Len(text)))
  /\ [](pc = "done" \/ ENABLED NextClean)
  /\ [](pc = "done" => (ret # NoString /\ ret \in Seq({ret[k] : k \in 1..Len(ret)})))

\* C6: the function returned for a text that ends inside a string, right after
\* a backslash
C6_Witness ==
  /\ pc = "done"
  /\ start # -1
  /\ end = -1
  /\ insideString
  /\ escape
  /\ ret # NoString

----------------------------------------------------------------------------
(* Claims about searchVerifiedTopic, under SpecQuick *)

\* the answers whose cleaned text JSON.parse rejects
Unparseable ==
  {txt \in ResponseTexts : txt # <<>> /\ ~JsonParse(CleanJsonString(txt)).ok}

\* the indexes of the web chunks of the response
WebIndexes == {k \in 1..Len(groundingChunks) : groundingChunks[k].web}

\* the indexes of the web chunks that are the first with their uri
FirstSeen ==
  {k \in WebIndexes :
     \A j \in WebIndexes : j < k => groundingChunks[j].uri # groundingChunks[k].uri}

\* the m-th index of FirstSeen, in the order of the response
NthFirstSeen(m) ==
  CHOOSE k \in FirstSeen : Cardinality({j \in FirstSeen : j < k}) = m - 1

\* the web chunks whose uri is missing or is no URL
Unusable == {k \in WebIndexes : ~Parseable(groundingChunks[k].uri)}

\* the host name without a leading www.
StripLeadingWww(host) ==
  IF host # <<>> /\ Head(host) = "www." THEN Tail(host) ELSE host

\* C7: when the answer is present and its cleaned text does not parse as JSON,
\* searchVerifiedTopic ends by throwing the malformed-response error and no
\* result was built.
C7_MalformedResponse ==
  (qpc \notin {"entry", "await"} /\ responseText \in Unparseable)
  => (qpc = "thrown" /\ error = MalformedMsg /\ result = NoResult)

\* C7: prose followed by an object that is no JSON was answered and rejected
C7_Witness ==
  /\ qpc = "thrown"
  /\ responseText = <<"Sure", SP, LB, "not", SP, "valid", SP, "json">>
  /\ error = MalformedMsg
  /\ result = NoResult

\* C8: the sources of a returned result are the web chunks that are the first
\* with their uri, in the order of the response, cut to the first 4: there are
\* min(4, number of distinct uris) of them and no two have the same url.
C8_Sources ==
  qpc = "returned" =>
    /\ Len(result.sources) = (IF Cardinality(FirstSeen) < 4 THEN Cardinality(FirstSeen) ELSE 4)
    /\ Cardinality(FirstSeen) = Cardinality({groundingChunks[k].uri : k \in WebIndexes})
    /\ \A m \in 1..Len(result.sources) :
         /\ result.sources[m].url = groundingChunks[NthFirstSeen(m)].uri
         /\ result.sources[m].title =
              (IF groundingChunks[NthFirstSeen(m)].title = "" THEN "Source Link"
               ELSE groundingChunks[NthFirstSeen(m)].title)
    /\ \A m, n \in 1..Len(result.sources) :
         m # n => result.sources[m].url # result.sources[n].url

\* C8: a response with more than four distinct uris was cut to four sources
C8_Witness ==
  /\ qpc = "returned"
  /\ Cardinality(FirstSeen) > 4
  /\ Len(result.sources) = 4

\* C9 as stated: a web chunk whose uri is missing or is no URL never makes
\* searchVerifiedTopic fail; the result is returned from the other chunks.
C9_UnusableDropped ==
  (qpc \in {"returned", "thrown"} /\ Unusable # {}) => qpc = "returned"

\* C10 as stated: the source of every returned WebResource is the host name of
\* its url without a leading www. and otherwise unchanged.
C10_LeadingWww ==
  qpc = "returned" =>
    \A m \in 1..Len(result.sources) :
      result.sources[m].source = StripLeadingWww(Hostname(result.sources[m].url))

----------------------------------------------------------------------------
(* advancedVerifiedSearch: the claims *)

\* the webLinks of the parsed payload
WebLinks == Field(parsedData, "webLinks").v

\* C11 as stated: every source of a result of advancedVerifiedSearch has the
\* source field that searchVerifiedTopic gives a citation with the same url
\* (the host name with www. removed).
C11_SameSource ==
  dpc = "returned" =>
    \A m \in 1..Len(result.sources) :
      result.sources[m].source =
        MapChunk(WebChunk("", result.sources[m].url)).source

\* the consistencyScore of the parsed payload
ConsistencyScore == Field(Field(parsedData, "analysis"), "consistencyScore")

Abs(n) == IF n < 0 THEN -n ELSE n

\* C12: when the consistencyScore of the payload is the number num/den, the
\* reliabilityScore of the returned result is an integer r that is nearest to
\* 100 * num/den, that is |r - 100 * num/den| <= 1/2; for 0.83 it is 83.
C12_RoundedScore ==
  (dpc = "returned" /\ ConsistencyScore.t = "num") =>
    /\ result.reliabilityScore.t = "num"
    /\ result.reliabilityScore.v[2] = 1
    /\ 2 * Abs(result.reliabilityScore.v[1] * ConsistencyScore.v[2]
               - 100 * ConsistencyScore.v[1]) <= ConsistencyScore.v[2]
    /\ ConsistencyScore.v = <<83, 100>> => result.reliabilityScore.v[1] = 83

\* C12: a payload with consistencyScore 0.83 was returned with the score 83
C12_Witness ==
  /\ dpc = "returned"
  /\ ConsistencyScore = [t |-> "num", v |-> <<83, 100>>]
  /\ result.reliabilityScore = Num(83)

----------------------------------------------------------------------------
(* searchVerifiedTopic and advancedVerifiedSearch: the claims on both *)

\* one of the two functions has returned its result
Returned == qpc = "returned" \/ dpc = "returned"

C14_DistinctUrls ==
  Returned =>
    \A m, n \in 1..Len(result.sources) :
      m # n => result.sources[m].url # result.sources[n].url

\* C15: the sources of a result of advancedVerifiedSearch are as many as the
\* webLinks of the payload, and the i-th source has the title and the url of
\* the i-th webLink: nothing is removed, reordered or cut.
C15_SourcesAreWebLinks ==
  dpc = "returned" =>
    /\ Len(result.sources) = Len(WebLinks)
    /\ \A k \in 1..Len(WebLinks) :
         /\ result.sources[k].title = Field(WebLinks[k], "title")
         /\ result.sources[k].url = Field(WebLinks[k], "url").v

\* C15: a payload with five webLinks, two of them with the same url, was
\* returned with five sources
C15_Witness ==
  /\ dpc = "returned"
  /\ Len(WebLinks) = 5
  /\ Len(result.sources) = 5
  /\ \E m, n \in 1..5 : m # n /\ result.sources[m].url = result.sources[n].url

\* the conflicts of the parsed payload
Conflicts == Field(Field(parsedData, "analysis"), "conflicts")

\* the lexemes of a text
Lexemes(txt) == {txt[k] : k \in 1..Len(txt)}

\* C16: the consensusNote of a result of advancedVerifiedSearch starts with the
\* sentence on the four reasoning paths; when the conflicts list of the payload
\* is not empty, the conflicts sentence follows with every conflict description
\* in the order of the list, separated by ", "; when it is empty, the high
\* consensus sentence follows; the high consensus sentence is in the note
\* exactly when the list is empty.
C16_ConsensusNote ==
  (dpc = "returned" /\ Conflicts.t = "arr") =>
    /\ result.consensusNote[1] = SynthesizedMsg
    /\ IF Conflicts.v # <<>>
       THEN /\ result.consensusNote[2] = ConflictsMsg
            /\ Len(result.consensusNote) = 2 * Len(Conflicts.v) + 1
            /\ \A k \in 1..Len(Conflicts.v) :
                 /\ <<result.consensusNote[2 * k + 1]>> = Conflicts.v[k].v
                 /\ k > 1 => result.consensusNote[2 * k] = ", "
       ELSE result.consensusNote = <<SynthesizedMsg, HighConsensusMsg>>
    /\ HighConsensusMsg \in Lexemes(result.consensusNote) <=> Conflicts.v = <<>>

\* C16: a payload with three conflicts was returned with a note that lists them
C16_Witness ==
  /\ dpc = "returned"
  /\ Len(Conflicts.v) = 3
  /\ result.consensusNote =
       <<SynthesizedMsg, ConflictsMsg, "c2", ", ", "c1", ", ", "c1">>

\* C16: a payload without conflicts was returned with the high consensus note
C16_WitnessEmpty ==
  /\ dpc = "returned"
  /\ Conflicts = [t |-> "arr", v |-> <<>>]
  /\ result.consensusNote = <<SynthesizedMsg, HighConsensusMsg>>

\* the reliabilityScore of the parsed payload of searchVerifiedTopic
PayloadScore == Field(parsedData, "reliabilityScore")

\* val is an integer from 0 to 100
IsPercent(val) == val.t = "num" /\ val.v[2] = 1 /\ val.v[1] \in 0..100

DistinctUrls(list) ==
  \A m, n \in 1..Len(list) : m # n => list[m].url # list[n].url

\* C14: the sources of a result of searchVerifiedTopic have pairwise distinct
\* urls; the sources of a result of advancedVerifiedSearch have pairwise
\* distinct urls exactly when the webLinks of the payload have.
C14_DistinctWhenQuick ==
  /\ qpc = "returned" => DistinctUrls(result.sources)
  /\ dpc = "returned" =>
       (DistinctUrls(result.sources) <=>
          \A m, n \in 1..Len(WebLinks) :
            m # n => Field(WebLinks[m], "url") # Field(WebLinks[n], "url"))

\* C14: a response of searchVerifiedTopic with two web chunks of one uri was
\* returned with sources of distinct urls
C14_Witness ==
  /\ qpc = "returned"
  /\ FirstSeen # WebIndexes
  /\ Len(result.sources) > 1
  /\ DistinctUrls(result.sources)

----------------------------------------------------------------------------
(* searchVerifiedTopic: the claims on the result *)

\* the recommendedVideos of the parsed payload
PayloadVideos == Field(parsedData, "recommendedVideos")

EmptyArray == [t |-> "arr", v |-> <<>>]

\* C17 as stated: the recommendedVideos of a result of searchVerifiedTopic is
\* always a sequence, the one of the payload when the payload has the field
\* and the empty one when it has not, and the mode is quick.
C17_AlwaysSequence ==
  qpc = "returned" =>
    /\ result.recommendedVideos.t = "arr"
    /\ result.recommendedVideos =
         (IF PayloadVideos.t = "undef" THEN EmptyArray ELSE PayloadVideos)
    /\ result.mode = "quick"

\* C17: the recommendedVideos of a result of searchVerifiedTopic is the value
\* of the payload when that is truthy, and the empty sequence when the field is
\* absent or its value is null, false, 0 or the empty string; so it is a
\* sequence whenever the payload has a sequence or nothing; the mode is quick.
C17_VideosOrDefault ==
  qpc = "returned" =>
    /\ result.recommendedVideos =
         (IF \/ PayloadVideos.t = "undef"
             \/ PayloadVideos.t = "lit" /\ PayloadVideos.v \in {"null", "false"}
             \/ PayloadVideos.t = "num" /\ PayloadVideos.v = <<0, 1>>
             \/ PayloadVideos.t = "str" /\ PayloadVideos.v = <<>>
          THEN EmptyArray
          ELSE PayloadVideos)
    /\ PayloadVideos.t \in {"arr", "undef"} => result.recommendedVideos.t = "arr"
    /\ result.mode = "quick"

\* C17: a payload without recommendedVideos was returned with the empty
\* sequence
C17_Witness ==
  /\ qpc = "returned"
  /\ parsedData.t = "obj"
  /\ PayloadVideos.t = "undef"
  /\ result.recommendedVideos = EmptyArray
  /\ result.mode = "quick"

----------------------------------------------------------------------------
(* the credential check of both functions *)

\* C18: without the API key no request is ever sent to the provider: each of
\* the two functions is either not yet past its first statement or has thrown
\* the missing-credential error, and has built no result.
C18_NoRequestWithoutKey ==
  ~apiKey =>
    /\ requests = 0
    /\ qpc \in {"idle", "entry", "thrown"}
    /\ dpc \in {"idle", "entry", "thrown"}
    /\ (qpc = "thrown" \/ dpc = "thrown") => error = MissingKeyMsg
    /\ result = NoResult

\* C18: advancedVerifiedSearch has thrown the missing-credential error and no
\* request was sent
C18_Witness ==
  /\ ~apiKey
  /\ dpc = "thrown"
  /\ error = MissingKeyMsg
  /\ requests = 0

\* C18: searchVerifiedTopic has thrown the missing-credential error and no
\* request was sent
C18_WitnessQuick ==
  /\ ~apiKey
  /\ qpc = "thrown"
  /\ error = MissingKeyMsg
  /\ requests = 0

----------------------------------------------------------------------------
(* App: the claims *)

\* C19: at most one call of a search function is awaited at any time, and one
\* is awaited exactly while loading is true; so while a search is outstanding
\* no submit starts a second one.
C19_OneOutstanding ==
  /\ Len(pending) <= 1
  /\ loading <=> Len(pending) = 1

\* C19: while a search is awaited the user has typed another query and has
\* switched the mode, and still one call is awaited
C19_Witness ==
  /\ loading
  /\ Len(pending) = 1
  /\ Trim(query) # <<>>
  /\ query # pending[1].topic
  /\ deepMode # pending[1].deep

----------------------------------------------------------------------------
(* NotesPanel: the claims *)

\* the item holds the notes of the panel: it is their text, and its text
\* parses to them
StoredIsNotes == stored = Item(Stringify(notes)) /\ Parse(stored.text) = notes

\* C20 as stated: once the effects have run the stored list is the list of the
\* panel, and the stored list is deserialized at most once.
C20_SavedAndLoadedOnce ==
  /\ Settled => StoredIsNotes
  /\ loads <= 1

\* C20: once the effects of a mount or of a mutation have run, the stored list
\* is the list of the panel; the stored list is deserialized by the load effect
\* alone, and the load effect is scheduled by a mount of the panel alone: once
\* for each mount and never by createNote, updateNote or deleteNote.
C20_SavedAndLoadedPerMount ==
  /\ [](Settled => StoredIsNotes)
  /\ [][loads' # loads =>
          (loads' = loads + 1 /\ "load" \in effects /\ "load" \notin effects')]_vars
  /\ [][("load" \in effects' /\ "load" \notin effects) =>
          (npc = "unmounted" /\ npc' = "mounted")]_vars
  /\ [][notes' # notes /\ Settled => effects' = {"save"} \/ npc' = "unmounted"]_vars

\* C20: a note was loaded, another was created and got the font serif, and the
\* stored list is the list of the panel
C20_Witness ==
  /\ Settled
  /\ loads = 1
  /\ Len(notes) = 2
  /\ notes[1].font = "serif"
  /\ notes[2].font = NoFont
  /\ StoredIsNotes

----------------------------------------------------------------------------
(* cleanJsonString: the claims on fenced texts, under SpecFence *)

\* the lists of segments the input is the text of
InputSegments == {segs \in SegmentLists : SegmentsText(segs) = input}

\* the indexes of the blocks of segs, and of its blocks labeled json
BlockIndexes(segs) == {k \in 1..Len(segs) : segs[k].kind = "block"}
JsonIndexes(segs) == {k \in BlockIndexes(segs) : segs[k].label \in {<<"json">>, <<"JSON">>}}

\* the working text by precedence: the first block labeled json, else the
\* first block, else the whole text
ByPrecedence(segs) ==
  IF JsonIndexes(segs) # {} THEN segs[SetMin(JsonIndexes(segs))].content
  ELSE IF BlockIndexes(segs) # {} THEN segs[SetMin(BlockIndexes(segs))].content
  ELSE SegmentsText(segs)

\* C21: for a text made of prose and fenced blocks, each fence on a line of its
\* own, the working text of cleanJsonString is the interior of the first block
\* labeled json when there is one, even after an unlabeled block; else the
\* interior of the first block; else the whole text.
C21_Precedence ==
  pc = "find" => \A segs \in InputSegments : text = ByPrecedence(segs)

\* C21: an unlabeled block came first and the block labeled json after it was
\* taken
C21_Witness ==
  /\ pc = "find"
  /\ \E segs \in InputSegments :
       /\ Len(segs) = 2
       /\ segs[1].kind = "block" /\ segs[1].label = <<>>
       /\ segs[2].kind = "block" /\ segs[2].label = <<"json">>
       /\ segs[1].content # segs[2].content
       /\ text = segs[2].content

\* the scan is over, it found no balanced object, and no closing brace follows
\* the first opening brace of the working text
LastResort ==
  /\ pc = "done"
  /\ start # -1
  /\ end = -1
  /\ LastIndexOf(text, RB) <= start

\* C22 as stated: in the last resort cleanJsonString returns the trimmed text
\* as it was passed in, fences and surrounding prose included.
C22_TrimmedInput == LastResort => ret = Trim(input)

\* C22: in the last resort cleanJsonString returns the trimmed working text:
\* the interior of the fenced block when a fence pattern matched, and the text
\* as passed in otherwise.
C22_TrimmedWorkingText ==
  LastResort =>
    /\ ret = Trim(text)
    /\ text = WorkingText(input)
    /\ (~HasFencePair(input) => ret = Trim(input))

\* C22: the last resort was taken on a text with a fenced block, and what was
\* returned is the interior of the block, not the trimmed input
C22_Witness ==
  /\ LastResort
  /\ HasFencePair(input)
  /\ ret # Trim(input)
  /\ IndexOf(ret, BT) = -1

----------------------------------------------------------------------------
(* App: the claims about the search state, under SpecApp and FairApp *)

\* C23: in every reachable state of the search form, a result and an error are
\* not set together: result is null or error is the empty string.
C23_ResultOrError == appResult = NoResult \/ appError = ""

\* C23: a search succeeded, and only the result is set
C23_Witness ==
  /\ appResult # NoResult
  /\ appError = ""
  /\ ~loading
  /\ pending = <<>>

\* C24: a search that is loading leaves the loading state once its call settles;
\* the step that ends loading leaves exactly one of result and error set and no
\* call outstanding; and while the query is blank no step starts loading, adds a
\* call, or changes result, error or searchedQuery.
C24_Settles ==
  /\ loading ~> ~loading
  /\ [][(loading /\ ~loading') =>
          /\ (appResult' # NoResult) # (appError' # "")
          /\ pending' = <<>>]_vars
  /\ [][(~loading /\ Trim(query) = <<>>) =>
          /\ ~loading'
          /\ pending' = pending
          /\ appResult' = appResult
          /\ appError' = appError
          /\ searchedQuery' = searchedQuery]_vars

\* C24: a search with a non-blank query failed, and only the error is set
C24_Witness ==
  /\ ~loading
  /\ pending = <<>>
  /\ Trim(searchedQuery) # <<>>
  /\ appError # ""
  /\ appResult = NoResult

----------------------------------------------------------------------------
(* Timer: the countdown and its settings *)

\* most calls of adjustDuration in a behaviour
MaxAdjusts == 2

\* the countdown is followed second by second from this many seconds down
MaxCountdown == 60

MathMax(a, b) == IF a >= b THEN a ELSE b
MathMin(a, b) == IF a <= b THEN a ELSE b

\* Math.max(lo, Math.min(hi, d)) without its lower limit
ClampAbove(lo, hi, d) == MathMin(hi, d)

\* Math.max(lo, Math.min(hi, d))
Clamp(lo, hi, d) == MathMax(lo, MathMin(hi, d))

OtherMode(m) == IF m = "FOCUS" THEN "BREAK" ELSE "FOCUS"

\* mode === TimerMode.FOCUS ? focusDuration * 60 : breakDuration * 60
TotalTime(m, focus, break) ==
  IF m = "FOCUS" THEN focus * SecondsPerMinute ELSE break * SecondsPerMinute

\* the effects whose dependencies differ between two renders
Changed(focus1, break1, left1, active1, focus2, break2, left2, active2) ==
  (IF focus1 # focus2 \/ break1 # break2 THEN {"duration"} ELSE {})
  \cup (IF left1 # left2 \/ active1 # active2 THEN {"countdown"} ELSE {})

\* the durations a paused, untouched countdown can stand at
FocusAtStart == {FocusMin, InitialFocus, FocusMax}
BreakAtStart == {BreakMin, InitialBreak, BreakMax}

\* the Timer in focus mode, paused at the full focus duration, its effects run
InitTimer ==
  /\ CleanIdle
  /\ SearchIdle
  /\ AppIdle
  /\ NotesIdle
  /\ mode = "FOCUS"
  /\ focusDuration \in FocusAtStart
  /\ breakDuration \in BreakAtStart
  /\ timeLeft = focusDuration * SecondsPerMinute
  /\ isActive = FALSE
  /\ isEditing = FALSE
  /\ interval = FALSE
  /\ timerEffects = {}
  /\ beep = FALSE
  /\ request = NoRequest
  /\ adjusts = 0

\* onClick of Adjust Timer Duration / Hide Settings
ToggleEditing ==
  /\ timerEffects = {}
  /\ isEditing' = ~isEditing
  /\ beep' = FALSE
  /\ request' = NoRequest
  /\ UNCHANGED <<mode, focusDuration, breakDuration, timeLeft, isActive, interval,
                 timerEffects, adjusts>>
  /\ UNCHANGED exceptTimer

\* onClick of a - or + button of the settings: adjustDuration and the render
AdjustDuration(type, amount) ==
  /\ timerEffects = {}
  /\ isEditing
  /\ adjusts < MaxAdjusts
  /\ adjusts' = adjusts + 1
  /\ request' = <<type, amount>>
  /\ IF type = "focus"
     THEN /\ focusDuration' = Clamp(FocusMin, FocusMax, focusDuration + amount)
          /\ breakDuration' = breakDuration
          /\ timeLeft' =
               IF mode = "FOCUS" /\ ~isActive
               THEN Clamp(SecondsPerMinute, FocusMax * SecondsPerMinute,
                          (focusDuration + amount) * SecondsPerMinute)
               ELSE timeLeft
     ELSE /\ breakDuration' = Clamp(BreakMin, BreakMax, breakDuration + amount)
          /\ focusDuration' = focusDuration
          /\ timeLeft' =
               IF mode = "BREAK" /\ ~isActive
               THEN Clamp(SecondsPerMinute, BreakMax * SecondsPerMinute,
                          (breakDuration + amount) * SecondsPerMinute)
               ELSE timeLeft
  /\ timerEffects' = Changed(focusDuration, breakDuration, timeLeft, isActive,
                             focusDuration', breakDuration', timeLeft', isActive)
  /\ beep' = FALSE
  /\ UNCHANGED <<mode, isActive, isEditing, interval>>
  /\ UNCHANGED exceptTimer

\* onClick of Start / Pause: toggleTimer and the render
ToggleTimer ==
  /\ timerEffects = {}
  /\ isActive' = ~isActive
  /\ timerEffects' = {"countdown"}
  /\ beep' = FALSE
  /\ request' = NoRequest
  /\ UNCHANGED <<mode, focusDuration, breakDuration, timeLeft, isEditing, interval, adjusts>>
  /\ UNCHANGED exceptTimer

\* onClick of Reset: resetTimer and the render
ResetTimer ==
  /\ timerEffects = {}
  /\ isActive' = FALSE
  /\ timeLeft' = TotalTime(mode, focusDuration, breakDuration)
  /\ timerEffects' = Changed(focusDuration, breakDuration, timeLeft, isActive,
                             focusDuration, breakDuration, timeLeft', FALSE)
  /\ beep' = FALSE
  /\ request' = NoRequest
  /\ UNCHANGED <<mode, focusDuration, breakDuration, isEditing, interval, adjusts>>
  /\ UNCHANGED exceptTimer

\* onClick of the button of the other mode: switchMode and the render
SwitchMode ==
  /\ timerEffects = {}
  /\ mode' = OtherMode(mode)
  /\ timeLeft' = TotalTime(OtherMode(mode), focusDuration, breakDuration)
  /\ isActive' = FALSE
  /\ timerEffects' = Changed(focusDuration, breakDuration, timeLeft, isActive,
                             focusDuration, breakDuration, timeLeft', FALSE)
  /\ beep' = FALSE
  /\ request' = NoRequest
  /\ UNCHANGED <<focusDuration, breakDuration, isEditing, interval, adjusts>>
  /\ UNCHANGED exceptTimer

\* a callback of the interval that takes two seconds off
TickByTwo ==
  /\ timerEffects = {}
  /\ interval
  /\ timeLeft <= MaxCountdown
  /\ timeLeft' = timeLeft - 2
  /\ timerEffects' = {"countdown"}
  /\ beep' = FALSE
  /\ request' = NoRequest
  /\ UNCHANGED <<mode, focusDuration, breakDuration, isActive, isEditing, interval, adjusts>>
  /\ UNCHANGED exceptTimer

\* the callback of the interval, a second after the effect set it, and the render
Tick ==
  /\ timerEffects = {}
  /\ interval
  /\ timeLeft <= MaxCountdown
  /\ timeLeft' = timeLeft - 1
  /\ timerEffects' = {"countdown"}
  /\ beep' = FALSE
  /\ request' = NoRequest
  /\ UNCHANGED <<mode, focusDuration, breakDuration, isActive, isEditing, interval, adjusts>>
  /\ UNCHANGED exceptTimer

\* the condition of the duration effect: if (!isActive)
DurationResets(active) == ~active

\* the first branch of the countdown effect: isActive && timeLeft > 0
Arms(active, left) == active /\ left > 0

\* the second branch of the countdown effect: timeLeft === 0 && isActive
Stops(active, left) == ~Arms(active, left) /\ left = 0 /\ active

\* the scheduled effects of a render, in the order of their declaration, and the
\* render their updates ask for
RunEffects ==
  /\ timerEffects # {}
  /\ interval' =
       IF "countdown" \in timerEffects THEN Arms(isActive, timeLeft) ELSE interval
  /\ timeLeft' =
       IF "duration" \in timerEffects /\ DurationResets(isActive)
       THEN TotalTime(mode, focusDuration, breakDuration)
       ELSE timeLeft
  /\ isActive' =
       IF "countdown" \in timerEffects /\ Stops(isActive, timeLeft) THEN FALSE ELSE isActive
  /\ beep' = ("countdown" \in timerEffects /\ Stops(isActive, timeLeft))
  /\ timerEffects' = Changed(focusDuration, breakDuration, timeLeft, isActive,
                             focusDuration, breakDuration, timeLeft', isActive')
  /\ UNCHANGED <<mode, focusDuration, breakDuration, isEditing, request, adjusts>>
  /\ UNCHANGED exceptTimer

NextTimer ==
  \/ ToggleEditing
  \/ \E type \in {"focus", "break"}, amount \in {-1, 1} : AdjustDuration(type, amount)
  \/ ToggleTimer
  \/ ResetTimer
  \/ SwitchMode
  \/ Tick
  \/ RunEffects

SpecTimer == InitTimer /\ [][NextTimer]_vars

\* the interval fires a second after it was set, and React runs the effects it
\* scheduled
FairTimer == SpecTimer /\ WF_vars(Tick) /\ WF_vars(RunEffects)

----------------------------------------------------------------------------
(* Timer: the claims, under SpecTimer and FairTimer *)

\* C25: timeLeft is never negative; a step from a state where the timer is
\* active at 0 makes it inactive and plays the beep; a step that changes
\* timeLeft and leaves the timer active takes exactly one second off; the
\* effects stop the timer only at 0; and a timer that is active within the
\* followed part of the countdown becomes inactive.
C25_Countdown ==
  /\ [](timeLeft >= 0)
  /\ [][(isActive /\ timeLeft = 0) => (~isActive' /\ beep' /\ timeLeft' = 0)]_vars
  /\ [][(isActive /\ isActive' /\ timeLeft' # timeLeft) => timeLeft' = timeLeft - 1]_vars
  /\ [][(isActive /\ ~isActive' /\ timerEffects # {}) => (timeLeft = 0 /\ beep')]_vars
  /\ (isActive /\ timeLeft <= MaxCountdown) ~> ~isActive

\* C25: the countdown ran down, the timer stopped at 0 and the beep was played
C25_Witness ==
  /\ beep
  /\ ~isActive
  /\ timeLeft = 0
  /\ timerEffects # {}

\* C26 as stated: in every reachable state timeLeft is at most 60 times the
\* duration of the current mode, so the progress shown, in percent, is within
\* 0 and 100.
C26_WithinTotal ==
  /\ timeLeft <= TotalTime(mode, focusDuration, breakDuration)
  /\ 0 <= (TotalTime(mode, focusDuration, breakDuration) - timeLeft) * 100
  /\ (TotalTime(mode, focusDuration, breakDuration) - timeLeft) * 100
       <= 100 * TotalTime(mode, focusDuration, breakDuration)

\* C27: focusDuration is always within 1 and 120 and breakDuration within 1 and
\* 60; a call of adjustDuration moves the duration it names by the amount, or to
\* the limit when that would pass it, and leaves the other duration alone.
C27_WithinLimits ==
  /\ [](focusDuration \in FocusMin..FocusMax /\ breakDuration \in BreakMin..BreakMax)
  /\ [][(adjusts' # adjusts /\ request'[1] = "focus") =>
          /\ breakDuration' = breakDuration
          /\ focusDuration' =
               IF focusDuration + request'[2] < FocusMin THEN FocusMin
               ELSE IF focusDuration + request'[2] > FocusMax THEN FocusMax
               ELSE focusDuration + request'[2]]_vars
  /\ [][(adjusts' # adjusts /\ request'[1] = "break") =>
          /\ focusDuration' = focusDuration
          /\ breakDuration' =
               IF breakDuration + request'[2] < BreakMin THEN BreakMin
               ELSE IF breakDuration + request'[2] > BreakMax THEN BreakMax
               ELSE breakDuration + request'[2]]_vars

\* C27: the focus duration was at its lower limit, was asked to go down, and is
\* at the limit still
C27_Witness ==
  /\ request = <<"focus", -1>>
  /\ focusDuration = FocusMin
  /\ timerEffects = {}
  /\ adjusts = MaxAdjusts

\* the last call of adjustDuration named the mode that is not the current one
OtherModeAdjusted ==
  /\ request # NoRequest
  /\ request[1] = (IF mode = "FOCUS" THEN "break" ELSE "focus")

\* C28 as stated: a call of adjustDuration for the mode that is not the current
\* one, and the effects it schedules, leave timeLeft as it was, whether the timer
\* runs or is paused part-way.
C28_OtherModeKeepsTimeLeft ==
  [][(request' # NoRequest
      /\ request'[1] = (IF mode = "FOCUS" THEN "break" ELSE "focus"))
     => timeLeft' = timeLeft]_vars

----------------------------------------------------------------------------
(* NotesPanel: the claims about the active note and the start, under SpecNotes *)

\* C29: in every reachable state activeNoteId is null or the id of a note of the
\* list; and a deleteNote step either changes neither the list nor activeNoteId
\* (the confirmation was cancelled) or removes the notes of one id, and then
\* activeNoteId is null or as it was.
C29_ActiveNotePresent ==
  /\ [](activeNoteId = NullId \/ \E k \in 1..Len(notes) : notes[k].id = activeNoteId)
  /\ [][DeleteNote =>
          \/ notes' = notes /\ activeNoteId' = activeNoteId
          \/ /\ Len(notes') < Len(notes)
             /\ \E id \in {notes[k].id : k \in 1..Len(notes)} : notes' = FilterOut(notes, id)
             /\ activeNoteId' \in {NullId, activeNoteId}]_vars

\* C29: two notes, and the one that is open is not the newest: it was opened
\* from the list
C29_Witness ==
  /\ Settled
  /\ Len(notes) = 2
  /\ activeNoteId # NullId
  /\ notes[1].id # activeNoteId
  /\ notes[2].id = activeNoteId

\* C30 as stated: from the mount on, while the list that was stored before the
\* mount is not yet rendered, localStorage holds it still; and the render that
\* ends the start shows the list that was stored before the mount.
C30_StoredNotesKept ==
  /\ []((npc = "mounted" /\ queued.present /\ queued.list # <<>>) =>
          (stored.present /\ Parse(stored.text) = queued.list))
  /\ [][(queued.present /\ ~queued'.present) => notes' = queued.list]_vars

====
